---- MODULE Spec2Model ----
(***************************************************************************)
(* Model of logid: the per-region JWT token cache (auth/manager.rs,        *)
(* config/jwt.rs), the log query client with its response-shape            *)
(* normalisation (log_query/client.rs) and the message extraction.         *)
(***************************************************************************)
EXTENDS Integers, Sequences, FiniteSets, TLC

(* ------------------------------------------------------------------ *)
(* Program constants                                                   *)
(* ------------------------------------------------------------------ *)

\* JwtInfo::new(jwt_token, 3600): the nominal lifetime in seconds.
TOKEN_LIFETIME == 3600

\* JwtInfo::is_valid: the 5 minute buffer, Duration::from_secs(300).
SAFETY_MARGIN == 300

(* ------------------------------------------------------------------ *)
(* Bounds of the model                                                 *)
(* ------------------------------------------------------------------ *)

\* Number of auth requests sent in one behaviour.
MaxFetch == 2

\* Number of clock advances in one behaviour.
MaxTicks == 2

\* The concurrent callers sharing one AuthManager (clones share the Arc).
Procs == {1, 2}

\* Seconds by which the clock may advance in one step: 1 s, and the reuse
\* window TOKEN_LIFETIME - SAFETY_MARGIN less one second, so that both
\* t + 3299 and t + 3300 are reached after a fetch at t.
TickSteps == {1, TOKEN_LIFETIME - SAFETY_MARGIN - 1}

(* ------------------------------------------------------------------ *)
(* Regions (config/region.rs)                                          *)
(* ------------------------------------------------------------------ *)

Regions == {"cn", "i18n", "us"}

\* get_region_config: cn is unconfigured, i18n and us are configured.
GetRegionConfig(r) ==
    CASE r = "cn" -> [region |-> "cn", configured |-> FALSE]
      [] r = "i18n" -> [region |-> "i18n", configured |-> TRUE]
      [] r = "us" -> [region |-> "us", configured |-> TRUE]

\* A faulty precondition: every region passes for configured.
IsConfiguredAlways(cfg) == TRUE

\* RegionConfig::is_configured
IsConfigured(cfg) == cfg.configured

(* ------------------------------------------------------------------ *)
(* JwtInfo (config/jwt.rs)                                             *)
(* ------------------------------------------------------------------ *)

\* Option<JwtInfo>::None, as the cache cell holds it.
NoJwt == [some |-> FALSE, token |-> 0, expires_at |-> 0]

\* JwtInfo::new(token, expires_in_seconds) evaluated at clock value t.
JwtInfoNew(token, expires_in_seconds, t) ==
    [some |-> TRUE, token |-> token, expires_at |-> t + expires_in_seconds]

\* A faulty is_valid: the comparison written `<=` instead of `<`.
IsValidInclusive(jwt, t) == t <= jwt.expires_at - SAFETY_MARGIN

\* JwtInfo::is_valid evaluated at clock value t:
\* Instant::now() < (self.expires_at - Duration::from_secs(300))
IsValid(jwt, t) == t < jwt.expires_at - SAFETY_MARGIN

(* ------------------------------------------------------------------ *)
(* Results of calls                                                    *)
(* ------------------------------------------------------------------ *)

NoRet == [kind |-> "none", token |-> 0, err |-> "", detail |-> ""]

OkToken(tok) == [kind |-> "ok", token |-> tok, err |-> "", detail |-> ""]

BoolRet(b) ==
    [kind |-> "bool", token |-> IF b THEN 1 ELSE 0, err |-> "", detail |-> ""]

Err(e, d) == [kind |-> "err", token |-> 0, err |-> e, detail |-> d]

\* The ways `.send().await` ends without a response: the connection fails,
\* or the client's 30 s timeout passes. Both are a reqwest::Error.
TransportFailures == {"network_error", "timeout"}

\* What the auth endpoint may answer to one GET: a 2xx with the
\* x-jwt-token header ("ok") or without it, a non-2xx without or with that
\* header, or no answer at all.
AuthOutcomes ==
    {"ok", "no_header", "http_error", "http_error_with_header"}
      \cup TransportFailures

\* `.send().await` gave a response.
Answered(outcome) == outcome \notin TransportFailures

\* response.status().is_success()
Status2xx(outcome) == outcome \in {"ok", "no_header"}

\* response.headers().get("x-jwt-token") gives a value that is text.
HasTokenHeader(outcome) == outcome \in {"ok", "http_error_with_header"}

\* A faulty fetch: the header is looked for without the status check.
FetchSucceedsOnHeader(outcome) == Answered(outcome) /\ HasTokenHeader(outcome)

\* fetch_jwt_token reaches Ok(JwtInfo::new(..)): the request was answered,
\* the status check passed, the header was there.
FetchSucceeds(outcome) ==
    Answered(outcome) /\ Status2xx(outcome) /\ HasTokenHeader(outcome)

\* fetch_jwt_token's error for each failing outcome: `.send().await?`, the
\* status check (the message holds the status and the body), the missing
\* header.
FetchError(outcome) ==
    IF ~Answered(outcome) THEN Err("NetworkError", "auth")
    ELSE IF ~Status2xx(outcome) THEN Err("AuthenticationFailed", "http_status")
    ELSE Err("AuthenticationFailed", "no_header")

(* ------------------------------------------------------------------ *)
(* Message redaction (log_query/client.rs, config/filter.rs)           *)
(* ------------------------------------------------------------------ *)

\* A text is a sequence of characters. "x" and "y" are ordinary characters,
\* "S" a space, "T" a tab, "N" a newline; "a", "b", "c", "d" are the
\* characters the configured patterns are made of.
Blank(ch) == ch \in {"S", "T"}

\* Rust's char::is_whitespace / the regex class \s, on this alphabet.
White(ch) == ch \in {"S", "T", "N"}

\* The compiled pattern list, in list order (get_default_filters holds
\* literal patterns such as "_compliance_nlp_log"): two literals here.
MessageFilters == << <<"a", "b">>, <<"c", "d">> >>

StartsWith(text, i, pat) ==
    /\ i + Len(pat) - 1 <= Len(text)
    /\ \A k \in 1..Len(pat) : text[i + k - 1] = pat[k]

\* regex.replace_all(&filtered, ""): one left-to-right pass that drops the
\* non-overlapping matches.
RECURSIVE RemoveMatches(_, _, _)
RemoveMatches(text, i, pat) ==
    IF i > Len(text) THEN <<>>
    ELSE IF StartsWith(text, i, pat)
    THEN RemoveMatches(text, i + Len(pat), pat)
    ELSE <<text[i]>> \o RemoveMatches(text, i + 1, pat)

\* `for regex in &self.message_filters { filtered = regex.replace_all(..) }`
RECURSIVE ApplyFilters(_, _, _)
ApplyFilters(filters, k, text) ==
    IF k > Len(filters) THEN text
    ELSE ApplyFilters(filters, k + 1, RemoveMatches(text, 1, filters[k]))

\* The end (exclusive) of the run of characters satisfying Blank from i.
BlankRunEnd(text, i) ==
    CHOOSE j \in i..(Len(text) + 1) :
      /\ \A k \in i..(j - 1) : Blank(text[k])
      /\ (j = Len(text) + 1 \/ ~Blank(text[j]))

\* The end (exclusive) of the run of whitespace characters from i.
WhiteRunEnd(text, i) ==
    CHOOSE j \in i..(Len(text) + 1) :
      /\ \A k \in i..(j - 1) : White(text[k])
      /\ (j = Len(text) + 1 \/ ~White(text[j]))

\* Regex [ \t]{2,} replaced by " ".
RECURSIVE CollapseBlanks(_, _)
CollapseBlanks(text, i) ==
    IF i > Len(text) THEN <<>>
    ELSE LET j == BlankRunEnd(text, i) IN
         IF j - i >= 2 THEN <<"S">> \o CollapseBlanks(text, j)
         ELSE <<text[i]>> \o CollapseBlanks(text, i + 1)

\* Regex \n\s*\n\s*\n replaced by "\n\n": a match starts at a newline whose
\* whitespace run holds three newlines or more and, the quantifiers being
\* greedy, ends at the last newline of that run.
RECURSIVE CollapseNewlines(_, _)
CollapseNewlines(text, i) ==
    IF i > Len(text) THEN <<>>
    ELSE IF text[i] = "N"
    THEN LET e == WhiteRunEnd(text, i)
             nl == {k \in i..(e - 1) : text[k] = "N"}
         IN IF Cardinality(nl) >= 3
            THEN LET last == CHOOSE k \in nl : \A m \in nl : m <= k
                 IN <<"N", "N">> \o CollapseNewlines(text, last + 1)
            ELSE <<text[i]>> \o CollapseNewlines(text, i + 1)
    ELSE <<text[i]>> \o CollapseNewlines(text, i + 1)

\* str::trim
Trim(text) ==
    LET keep == {k \in 1..Len(text) : ~White(text[k])}
    IN IF keep = {} THEN <<>>
       ELSE LET lo == CHOOSE k \in keep : \A m \in keep : k <= m
                hi == CHOOSE k \in keep : \A m \in keep : m <= k
            IN SubSeq(text, lo, hi)

\* A faulty pipeline: the whitespace is collapsed before the patterns are
\* removed.
FilterMessageContentCollapsingFirst(message) ==
    Trim(ApplyFilters(MessageFilters, 1,
           CollapseNewlines(CollapseBlanks(message, 1), 1)))

\* LogQueryClient::filter_message_content
FilterMessageContent(message) ==
    Trim(CollapseNewlines(
           CollapseBlanks(ApplyFilters(MessageFilters, 1, message), 1), 1))

(* ------------------------------------------------------------------ *)
(* Message extraction (log_query/client.rs)                            *)
(* ------------------------------------------------------------------ *)

\* Option<String>
NoneStr == [some |-> FALSE, v |-> <<>>]

SomeStr(t) == [some |-> TRUE, v |-> t]

\* LogKv; type_field and highlight are copied through and left out.
Kv(key, value) == [key |-> key, value |-> value]

\* The inner loop `for kv in &value.kv_list`: acc is
\* (extracted_values, location) so far.
RECURSIVE ExtractKvs(_, _, _)
ExtractKvs(kv_list, n, acc) ==
    IF n > Len(kv_list) THEN acc
    ELSE LET kv == kv_list[n] IN
         IF kv.key = "_msg"
         THEN ExtractKvs(kv_list, n + 1,
                [acc EXCEPT !.values =
                   Append(@, [key |-> kv.key,
                              value |-> FilterMessageContent(kv.value),
                              original_value |-> kv.value])])
         ELSE IF kv.key = "_location"
         THEN ExtractKvs(kv_list, n + 1,
                         [acc EXCEPT !.location = SomeStr(kv.value)])
         ELSE ExtractKvs(kv_list, n + 1, acc)

\* A faulty extraction: a message is pushed for every value.
PushMessageAlways(messages, item, value, acc) ==
    Append(messages, [id |-> <<item.id, value.id>>,
                      values |-> acc.values,
                      location |-> acc.location])

\* `if !extracted_values.is_empty() { messages.push(..) }`
PushMessage(messages, item, value, acc) ==
    IF acc.values # <<>>
    THEN Append(messages, [id |-> <<item.id, value.id>>,
                           values |-> acc.values,
                           location |-> acc.location])
    ELSE messages

\* The loop `for value in &item.value`.
RECURSIVE ExtractValues(_, _, _)
ExtractValues(item, j, messages) ==
    IF j > Len(item.value) THEN messages
    ELSE ExtractValues(item, j + 1,
           PushMessage(messages, item, item.value[j],
                       ExtractKvs(item.value[j].kv_list, 1,
                                  [values |-> <<>>, location |-> NoneStr])))

\* The loop `for item in &data.items`.
RECURSIVE ExtractItems(_, _, _)
ExtractItems(items, i, messages) ==
    IF i > Len(items) THEN messages
    ELSE ExtractItems(items, i + 1, ExtractValues(items[i], 1, messages))

\* LogQueryClient::extract_log_messages
ExtractLogMessages(items) == ExtractItems(items, 1, <<>>)

(* ------------------------------------------------------------------ *)
(* Response normalisation (log_query/client.rs, log_query/types.rs)    *)
(* ------------------------------------------------------------------ *)

\* Number of entries of an `items` array in a response.
MaxRespItems == 1

\* Two LogItem values a response may carry.
ItemA ==
    [id |-> "A",
     value |-> << [id |-> "v1",
                   kv_list |-> << Kv("_msg", <<"x", "a", "b", "S", "S", "y">>),
                                  Kv("_location", <<"a", "b">>) >>] >>]

ItemB ==
    [id |-> "B",
     value |-> << [id |-> "v1", kv_list |-> << Kv("other", <<"x">>) >>],
                  [id |-> "v2",
                   kv_list |-> << Kv("_msg", <<"y">>),
                                  Kv("_msg", <<"c", "d", "x">>) >>] >>]

ItemPool == {ItemA, ItemB}

\* The item arrays of a response: up to MaxRespItems items, no item twice.
ItemSeqs ==
    UNION {{q \in [1..n -> ItemPool] :
              \A i \in 1..n, j \in 1..n : q[i] = q[j] => i = j} :
           n \in 0..MaxRespItems}

\* The JSON member `items`: missing, present but not an array of LogItem
\* (null, a string, entries of the wrong shape), or an array of LogItem.
ItemsAbsent == [k |-> "absent", v |-> <<>>]

ItemsBad == [k |-> "bad", v |-> <<>>]

ItemsArr(seq) == [k |-> "array", v |-> seq]

ItemsVals == {ItemsAbsent, ItemsBad} \cup {ItemsArr(q) : q \in ItemSeqs}

\* The JSON member `meta`: missing, one of two objects that decode as
\* LogMeta, or a value that does not (not an object).
MetaVals == {"absent", "metaA", "metaB", "bad"}

\* The JSON member `tag_infos`: missing, an array, or not an array.
TagVals == {"absent", "tagA", "bad"}

\* A JSON object seen as a candidate LogData, or a non-object value.
JsonObj(items, meta, tag_infos) ==
    [k |-> "object", items |-> items, meta |-> meta, tag_infos |-> tag_infos]

JsonAbsent ==
    [k |-> "absent", items |-> ItemsAbsent, meta |-> "absent",
     tag_infos |-> "absent"]

JsonOther ==
    [k |-> "other", items |-> ItemsAbsent, meta |-> "absent",
     tag_infos |-> "absent"]

\* The member `data` of a response: missing, a non-object (null), an object.
DataVals ==
    {JsonAbsent, JsonOther} \cup
    {JsonObj(i, m, t) : i \in ItemsVals, m \in MetaVals, t \in TagVals}

\* The decoded body of a 2xx response (serde_json::Value).
Responses ==
    [data : DataVals, items : ItemsVals, meta : MetaVals, tag_infos : TagVals]

EmptyResponse ==
    [data |-> JsonAbsent, items |-> ItemsAbsent, meta |-> "absent",
     tag_infos |-> "absent"]

\* response_data seen as a candidate LogData (response_data.clone()).
TopAsData(resp) == JsonObj(resp.items, resp.meta, resp.tag_infos)

\* serde_json::json!({"items": []})
EmptyItemsData == JsonObj(ItemsArr(<<>>), "absent", "absent")

\* A faulty selection: the top-level `items` is looked at before `data`.
SelectDataTopFirst(resp) ==
    IF resp.items.k # "absent" THEN TopAsData(resp)
    ELSE IF resp.data.k # "absent" THEN resp.data
    ELSE EmptyItemsData

\* The selection of the value to decode, `let data = if let Some(outer_data)
\* = response_data.get("data") { .. }`. Value::get answers None on a
\* non-object, so outer_data.get("items") is None for `"data": null`.
SelectData(resp) ==
    IF resp.data.k # "absent"
    THEN IF resp.data.k = "object" /\ resp.data.items.k # "absent"
         THEN resp.data
         ELSE IF ~(resp.data.k = "object" /\ resp.data.items.k # "absent")
                 /\ resp.items.k # "absent"
         THEN TopAsData(resp)
         ELSE resp.data
    ELSE IF resp.items.k # "absent"
    THEN TopAsData(resp)
    ELSE EmptyItemsData

\* Option<LogMeta> / Option<Vec<Value>> of a decoded member.
NoData == [items |-> <<>>, meta |-> "absent", tag_infos |-> "absent"]

\* serde_json::from_value::<LogData>(data): `items` is required and must be
\* an array of LogItem; `meta` and `tag_infos` are optional but must decode
\* when present.
LogDataDecodes(d) ==
    /\ d.k = "object"
    /\ d.items.k = "array"
    /\ d.meta # "bad"
    /\ d.tag_infos # "bad"

LogDataOf(d) ==
    [items |-> d.items.v, meta |-> d.meta, tag_infos |-> d.tag_infos]

\* LogQueryResponse (timestamp and display name left out).
NoResponse ==
    [some |-> FALSE, data |-> NoData, meta |-> "absent",
     tag_infos |-> "absent", region |-> ""]

\* `tag_infos.and_then(|v| serde_json::from_value(v).ok())`
TagInfosOf(resp) == IF resp.tag_infos = "bad" THEN "absent" ELSE resp.tag_infos

\* The LogQueryResponse query_logs builds from a decodable selection.
BuildResponse(resp, r) ==
    [some |-> TRUE,
     data |-> LogDataOf(SelectData(resp)),
     meta |-> resp.meta,
     tag_infos |-> TagInfosOf(resp),
     region |-> r]

\* DetailedLogResult (timestamp and display name left out).
NoDetails ==
    [some |-> FALSE, messages |-> <<>>, meta |-> "absent",
     tag_infos |-> "absent", total_items |-> 0, region |-> ""]

\* get_log_details, after query_logs answered `response`.
BuildDetails(response) ==
    [some |-> TRUE,
     messages |-> ExtractLogMessages(response.data.items),
     meta |-> response.data.meta,
     tag_infos |-> response.tag_infos,
     total_items |-> Len(response.data.items),
     region |-> response.region]

QueryOps == {"query_logs", "get_log_details"}

\* The successful result of a query.
OkQuery == [kind |-> "ok", token |-> 0, err |-> "", detail |-> ""]

\* A query_logs that hands the get_jwt_token error on as it is.
WrapTokenErrorKeepingKind(e) == e

\* query_logs wraps every get_jwt_token error in AuthenticationFailed, the
\* message quoting the original error.
WrapTokenError(e) ==
    Err("AuthenticationFailed",
        CASE e.err = "NetworkError" -> "jwt: NetworkError"
          [] e.detail = "http_status" -> "jwt: AuthenticationFailed http_status"
          [] OTHER -> "jwt: AuthenticationFailed no_header")

\* What the log endpoint may answer besides a decodable 2xx body.
LogFailures == {"http_error", "bad_json"} \cup TransportFailures

\* A faulty query_logs: a non-2xx answer is passed on like a transport
\* failure.
LogErrorStatusUnchecked(outcome, r) ==
    IF outcome = "bad_json"
    THEN Err("NetworkError", "decode")
    ELSE Err("NetworkError", "post")

\* query_logs' error for each of them: `.send().await?`, the non-2xx
\* branch, and `response.json().await.map_err(NetworkError)`.
LogError(outcome, r) ==
    CASE outcome \in TransportFailures -> Err("NetworkError", "post")
      [] outcome = "http_error" -> Err("QueryFailed", r)
      [] outcome = "bad_json" -> Err("NetworkError", "decode")

(* ------------------------------------------------------------------ *)
(* Dispatcher construction (log_query/multi_region.rs,                 *)
(* auth/multi_region.rs, auth/manager.rs, config/env.rs)               *)
(* ------------------------------------------------------------------ *)

\* Number of region keys handed to MultiRegionLogQuery::new.
MaxKeys == 3

\* The region keys a caller may pass: the three regions and an unknown key.
Keys == Regions \cup {"eu"}

KeyLists == UNION {[1..n -> Keys] : n \in 1..MaxKeys}

\* Region::from_str (keys are written in lower case here).
RegionFromStr(k) == IF k \in Regions THEN k ELSE "none"

\* AuthManager::new(region) in an environment where the regions of `creds`
\* have a CAS_SESSION (their own variable or the general one): an unknown
\* key is UnsupportedRegion, a missing session MissingCredentials.
AuthManagerNew(k, creds) ==
    IF RegionFromStr(k) = "none" THEN Err("UnsupportedRegion", k)
    ELSE IF RegionFromStr(k) \notin creds THEN Err("MissingCredentials", k)
    ELSE OkQuery

\* MultiRegionAuthManager::new: the loop over the keys, each failure
\* wrapped in AuthenticationFailed and returned at once (`?`).
RECURSIVE MultiAuthNew(_, _, _, _)
MultiAuthNew(keys, i, creds, managers) ==
    IF i > Len(keys) THEN [ok |-> TRUE, managers |-> managers, err |-> NoRet]
    ELSE LET m == AuthManagerNew(keys[i], creds) IN
         IF m.kind = "err"
         THEN [ok |-> FALSE, managers |-> {},
               err |-> Err("AuthenticationFailed", m.err)]
         ELSE MultiAuthNew(keys, i + 1, creds, managers \cup {keys[i]})

\* LogQueryClient::new: create_message_filters(None)? is its only early
\* return besides the HTTP client builder.
LogQueryClientNew(k, filters_ok) ==
    IF filters_ok THEN OkQuery ELSE Err("FilterConfigError", k)

\* A faulty loop: a key whose client cannot be built is left out.
RECURSIVE ClientsNewSkipping(_, _, _, _, _)
ClientsNewSkipping(keys, i, managers, filters_ok, clients) ==
    IF i > Len(keys) THEN [ok |-> TRUE, clients |-> clients, err |-> NoRet]
    ELSE IF \/ RegionFromStr(keys[i]) = "none"
            \/ keys[i] \notin managers
            \/ LogQueryClientNew(keys[i], filters_ok).kind = "err"
    THEN ClientsNewSkipping(keys, i + 1, managers, filters_ok, clients)
    ELSE ClientsNewSkipping(keys, i + 1, managers, filters_ok,
                            clients \cup {keys[i]})

\* The loop of MultiRegionLogQuery::new over the keys: get_region_config,
\* get_manager, LogQueryClient::new, each with `?`, then clients.insert.
RECURSIVE ClientsNew(_, _, _, _, _)
ClientsNew(keys, i, managers, filters_ok, clients) ==
    IF i > Len(keys) THEN [ok |-> TRUE, clients |-> clients, err |-> NoRet]
    ELSE IF RegionFromStr(keys[i]) = "none"
    THEN [ok |-> FALSE, clients |-> {},
          err |-> Err("UnsupportedRegion", keys[i])]
    ELSE IF keys[i] \notin managers
    THEN [ok |-> FALSE, clients |-> {},
          err |-> Err("AuthenticationFailed", "no_manager")]
    ELSE LET c == LogQueryClientNew(keys[i], filters_ok) IN
         IF c.kind = "err" THEN [ok |-> FALSE, clients |-> {}, err |-> c]
         ELSE ClientsNew(keys, i + 1, managers, filters_ok,
                         clients \cup {keys[i]})

\* No dispatcher: new() has not been called.
NoDispatcher ==
    [state |-> "none", clients |-> {}, err |-> NoRet, keys |-> <<>>,
     creds |-> {}, filters_ok |-> TRUE]

\* MultiRegionLogQuery::new(keys): Ok(Self { auth_manager, clients }) or the
\* first error.
MultiRegionLogQueryNew(keys, creds, filters_ok) ==
    LET a == MultiAuthNew(keys, 1, creds, {}) IN
    IF ~a.ok
    THEN [state |-> "err", clients |-> {}, err |-> a.err, keys |-> keys,
          creds |-> creds, filters_ok |-> filters_ok]
    ELSE LET c == ClientsNew(keys, 1, a.managers, filters_ok, {}) IN
         IF ~c.ok
         THEN [state |-> "err", clients |-> {}, err |-> c.err, keys |-> keys,
               creds |-> creds, filters_ok |-> filters_ok]
         ELSE [state |-> "ok", clients |-> c.clients, err |-> NoRet,
               keys |-> keys, creds |-> creds, filters_ok |-> filters_ok]

(* ------------------------------------------------------------------ *)
(* Versions (commands/update.rs)                                       *)
(* ------------------------------------------------------------------ *)

\* The versions the running binary and the latest release may have, as
\* major, minor, patch.
Versions == {<<0, 9, 0>>, <<0, 9, 1>>, <<0, 10, 0>>, <<1, 0, 0>>}

\* The bytes of the decimal numeral of n (n below 100): '0' is 48.
Numeral(n) == IF n < 10 THEN <<48 + n>> ELSE <<48 + (n \div 10), 48 + (n % 10)>>

\* The version written as a string, e.g. "0.10.0"; '.' is 46.
VersionString(v) ==
    Numeral(v[1]) \o <<46>> \o Numeral(v[2]) \o <<46>> \o Numeral(v[3])

\* The release's tag_name: the version, with a leading 'v' (118) or not.
TagName(v, with_v) == IF with_v THEN <<118>> \o VersionString(v) ELSE VersionString(v)

\* tag_name.trim_start_matches('v')
RECURSIVE TrimStartV(_)
TrimStartV(text) ==
    IF Len(text) > 0 /\ text[1] = 118 THEN TrimStartV(Tail(text)) ELSE text

\* `a < b` on &str: the comparison of the bytes, the shorter string first
\* when one is the beginning of the other.
RECURSIVE StrLess(_, _)
StrLess(a, b) ==
    IF Len(b) = 0 THEN FALSE
    ELSE IF Len(a) = 0 THEN TRUE
    ELSE IF a[1] # b[1] THEN a[1] < b[1]
    ELSE StrLess(Tail(a), Tail(b))

\* `a >= b` on &str
StrGeq(a, b) == ~StrLess(a, b)

\* The inputs of update_command before it is started.
NoUpdate ==
    [check |-> FALSE, force |-> FALSE, current |-> <<48>>, tag |-> <<48>>]

(* ------------------------------------------------------------------ *)
(* Region strings (config/region.rs)                                   *)
(* ------------------------------------------------------------------ *)

\* The characters region strings are written with here: the letters and
\* digits of the three keys, two capitals, and a foreign letter.
KeyChars == {"c", "n", "N", "i", "I", "1", "8", "u", "s", "x"}

\* char::to_lowercase
ToLowerCh(ch) ==
    CASE ch = "N" -> "n"
      [] ch = "I" -> "i"
      [] OTHER -> ch

\* str::to_lowercase
ToLowercase(text) == [k \in 1..Len(text) |-> ToLowerCh(text[k])]

\* Region::as_str, the enum written as the model's region value.
AsStr(r) ==
    CASE r = "cn" -> <<"c", "n">>
      [] r = "i18n" -> <<"i", "1", "8", "n">>
      [] r = "us" -> <<"u", "s">>

\* The match of Region::from_str on a string as it is; "none" is None.
MatchRegion(text) ==
    IF \E r \in Regions : AsStr(r) = text
    THEN CHOOSE r \in Regions : AsStr(r) = text
    ELSE "none"

\* A faulty from_str: the string is matched as written.
FromStrExact(text) == MatchRegion(text)

\* Region::from_str: `match region.to_lowercase().as_str()`
FromStr(text) == MatchRegion(ToLowercase(text))

\* Option<RegionConfig>::None
NoConfig == [some |-> FALSE, region |-> "none", configured |-> FALSE]

\* get_region_config on a string: `Region::from_str(region_str)?`, then
\* the config of the region.
GetRegionConfigOf(text) ==
    LET r == FromStr(text) IN
    IF r = "none" THEN NoConfig
    ELSE [some |-> TRUE, region |-> GetRegionConfig(r).region,
          configured |-> GetRegionConfig(r).configured]

(* ------------------------------------------------------------------ *)
(* Session lookup (config/env.rs, config/region.rs)                    *)
(* ------------------------------------------------------------------ *)

\* Region::cas_session_env_var
CasSessionEnvVar(r) ==
    CASE r = "cn" -> "CAS_SESSION_CN"
      [] r = "i18n" -> "CAS_SESSION_I18n"
      [] r = "us" -> "CAS_SESSION_US"

\* The variables get_cas_session looks at.
EnvVarNames == {CasSessionEnvVar(r) : r \in Regions} \cup {"CAS_SESSION"}

\* What env_vars.get(name) may give: nothing, the empty string, or one of
\* two session values.
EnvValues == {NoneStr, SomeStr(<<>>), SomeStr(<<"p">>), SomeStr(<<"q">>)}

\* `if let Some(session) = env_vars.get(..) { if !session.is_empty() {..} }`
Usable(v) == v.some /\ Len(v.v) > 0

\* The successful result of get_cas_session: Ok(session).
OkSession(v) == [kind |-> "ok", token |-> 0, err |-> "", detail |-> v]

\* A faulty lookup: the general variable is looked at first.
GetCasSessionGeneralFirst(env, r) ==
    IF Usable(env["CAS_SESSION"]) THEN OkSession(env["CAS_SESSION"].v)
    ELSE IF Usable(env[CasSessionEnvVar(r)])
    THEN OkSession(env[CasSessionEnvVar(r)].v)
    ELSE Err("MissingCredentials", CasSessionEnvVar(r))

\* EnvManager::get_cas_session
GetCasSession(env, r) ==
    IF Usable(env[CasSessionEnvVar(r)])
    THEN OkSession(env[CasSessionEnvVar(r)].v)
    ELSE IF Usable(env["CAS_SESSION"]) THEN OkSession(env["CAS_SESSION"].v)
    ELSE Err("MissingCredentials", CasSessionEnvVar(r))

\* The cells `Arc<RwLock<Option<JwtInfo>>>` may point to: the one
\* AuthManager::new makes for a region, named by the region, and the one a
\* copy of that manager would own if copying made a new cell.
CopyCell(r) ==
    CASE r = "cn" -> "cn_copy"
      [] r = "i18n" -> "i18n_copy"
      [] r = "us" -> "us_copy"

Cells == Regions \cup {CopyCell(r) : r \in Regions}

\* Who holds an AuthManager of a region: the MultiRegionAuthManager (or a
\* caller of AuthManager itself), and the LogQueryClient.
Holders == {"manager", "client"}

\* A faulty copy: the client's AuthManager gets a cache cell of its own.
CacheOfDeepCopy(h, r) == IF h = "client" THEN CopyCell(r) ELSE r

\* The cell the AuthManager of holder h points to. The client's manager is
\* `auth.as_ref().clone()`: the derived Clone copies the Arc, not the cell.
CacheOf(h, r) == r

VARIABLES
    now,        \* the monotonic clock (Instant::now()), in seconds
    ticks,      \* number of clock advances so far
    jwt_cache,  \* per region: the cell behind Arc<RwLock<Option<JwtInfo>>>
    readers,    \* per region: number of read guards held
    writer,     \* per region: the caller holding the write guard, or 0
    pc,         \* per caller: its position in the call
    op,         \* per caller: the operation it runs
    reg,        \* per caller: the region of the manager it calls
    force,      \* per caller: force_refresh
    jwt_info,   \* per caller: the local jwt_info returned by its fetch
    ret,        \* per caller: the value the call returned
    fetched,    \* per caller: whether this call sent an auth request
    a_outcome,  \* per caller: what the auth endpoint answered to this call
    auth_calls, \* number of auth GET requests sent
    issued,     \* the JwtInfo values built by successful fetches, in order
    issued_at,  \* the clock value at which each of them was built
    last_written, \* the JwtInfo of the write that completed last, per region
    plain,      \* every call so far: non-forced get_jwt_token, alone, no failure
    t_jwt,      \* a JwtInfo built by JwtInfo::new with some lifetime
    t_life,     \* the lifetime it was built with
    t_check,    \* the last is_valid() evaluated on it, and when
    q_token,    \* per caller: the jwt_token local of query_logs
    q_posts,    \* per caller: log POST requests this query has sent
    q_outcome,  \* per caller: what the log endpoint answered
    q_raw,      \* per caller: the decoded body of a 2xx answer
    q_response, \* per caller: the LogQueryResponse of query_logs
    q_details,  \* per caller: the DetailedLogResult of get_log_details
    ex_items,   \* the LogData items handed to extract_log_messages
    ex_done,    \* whether extract_log_messages ran on them
    ex_msgs,    \* what it returned
    disp,       \* the MultiRegionLogQuery built by new(), or its error
    m_op,       \* the all-regions operation in progress or completed
    m_todo,     \* the held keys its loop has not visited yet
    m_cur,      \* the key its loop is at
    m_results,  \* the mapping it has built so far
    m_auth,     \* per key: what the auth endpoint answered in this run
    r_text,     \* a message text handed to filter_message_content
    r_n,        \* the number of pieces it was put together from
    r_done,     \* whether filter_message_content ran on it
    r_out,      \* what it returned
    r_again,    \* what it returned when run on r_out
    e_env,      \* EnvManager.env_vars: the value of each session variable
    e_region,   \* the region get_cas_session was last called with
    e_ret,      \* what it returned
    s_text,     \* a region string handed to Region::from_str
    s_done,     \* whether from_str and get_region_config ran on it
    s_region,   \* what from_str returned
    s_cfg,      \* what get_region_config returned
    u_pc,       \* the position of update_command
    u_in,       \* its flags, CARGO_PKG_VERSION and the latest release's tag
    u_events,   \* what it has done to files so far, in order
    u_ret       \* how it ended

clockvars == <<now, ticks>>

lockvars == <<readers, writer>>

callvars == <<pc, op, reg, force, jwt_info, ret, fetched, a_outcome>>

histvars == <<auth_calls, issued, issued_at, last_written, plain>>

tokvars == <<clockvars, jwt_cache, lockvars, callvars, histvars>>

jwtvars == <<t_jwt, t_life, t_check>>

queryvars == <<q_token, q_posts, q_outcome, q_raw, q_response, q_details>>

extractvars == <<ex_items, ex_done, ex_msgs>>

dispvars == <<disp, m_op, m_todo, m_cur, m_results, m_auth>>

redactvars == <<r_text, r_n, r_done, r_out, r_again>>

envvars == <<e_env, e_region, e_ret>>

\* The state of the harnesses of the pure functions.
strvars == <<s_text, s_done, s_region, s_cfg>>

updvars == <<u_pc, u_in, u_events, u_ret>>

harnessvars == <<envvars, strvars, updvars>>

extravars == <<dispvars, redactvars, harnessvars>>

\* What the token cache operations never touch.
nontoken == <<jwtvars, queryvars, extractvars, extravars>>

vars == <<tokvars, nontoken>>

TokenInit ==
    /\ now = 0
    /\ ticks = 0
    /\ jwt_cache = [c \in Cells |-> NoJwt]
    /\ readers = [c \in Cells |-> 0]
    /\ writer = [c \in Cells |-> 0]
    /\ pc = [p \in Procs |-> "idle"]
    /\ op = [p \in Procs |-> "none"]
    /\ reg = [p \in Procs |-> "us"]
    /\ force = [p \in Procs |-> FALSE]
    /\ jwt_info = [p \in Procs |-> NoJwt]
    /\ ret = [p \in Procs |-> NoRet]
    /\ fetched = [p \in Procs |-> FALSE]
    /\ a_outcome = [p \in Procs |-> "none"]
    /\ auth_calls = 0
    /\ issued = <<>>
    /\ issued_at = <<>>
    /\ last_written = [r \in Regions |-> NoJwt]
    /\ plain = TRUE

NoCheck == [done |-> FALSE, val |-> FALSE, at |-> 0]

JwtHarnessInit ==
    /\ t_jwt = NoJwt
    /\ t_life = 0
    /\ t_check = NoCheck

QueryInit ==
    /\ q_token = [p \in Procs |-> 0]
    /\ q_posts = [p \in Procs |-> 0]
    /\ q_outcome = [p \in Procs |-> "none"]
    /\ q_raw = [p \in Procs |-> EmptyResponse]
    /\ q_response = [p \in Procs |-> NoResponse]
    /\ q_details = [p \in Procs |-> NoDetails]

ExtractInit ==
    /\ ex_items = <<>>
    /\ ex_done = FALSE
    /\ ex_msgs = <<>>

\* No dispatcher has been built, no all-regions operation run.
DispInit ==
    /\ disp = NoDispatcher
    /\ m_op = "none"
    /\ m_todo = {}
    /\ m_cur = ""
    /\ m_results = [r \in Regions |-> NoRet]
    /\ m_auth = [r \in Regions |-> "none"]

RedactInit ==
    /\ r_text = <<>>
    /\ r_n = 0
    /\ r_done = FALSE
    /\ r_out = <<>>
    /\ r_again = <<>>

\* No session variable is set, get_cas_session has not been called.
EnvInit ==
    /\ e_env = [v \in EnvVarNames |-> NoneStr]
    /\ e_region = "none"
    /\ e_ret = NoRet

StrInit ==
    /\ s_text = <<>>
    /\ s_done = FALSE
    /\ s_region = "none"
    /\ s_cfg = NoConfig

\* update_command has not been started.
UpdInit ==
    /\ u_pc = "idle"
    /\ u_in = NoUpdate
    /\ u_events = <<>>
    /\ u_ret = "none"

Init ==
    /\ TokenInit /\ JwtHarnessInit /\ QueryInit /\ ExtractInit
    /\ DispInit /\ RedactInit /\ EnvInit /\ StrInit /\ UpdInit

\* Whether caller p is inside a call.
Active(p) == pc[p] \notin {"idle", "done"}

\* The AuthManager a call goes through: a query uses its client's.
HolderOf(o) == IF o \in QueryOps THEN "client" ELSE "manager"

\* The cache cell the call of p works on.
CacheCell(p) == CacheOf(HolderOf(op[p]), reg[p])

TokenOps == {"get_jwt_token", "refresh_token", "is_token_valid"}

\* refresh_token is `self.get_jwt_token(true).await`; is_token_valid has no
\* force_refresh.
ForceOf(o, f) ==
    CASE o = "refresh_token" -> TRUE
      [] o = "get_jwt_token" -> f
      [] OTHER -> FALSE

\* A faulty get_jwt_token: force_refresh is not consulted before the lookup.
StartPcIgnoringForce(o, f) == "rlock"

\* get_jwt_token: `if !force_refresh` guards the cache lookup; a forced call
\* goes straight to the fetch. is_token_valid always reads the cache.
StartPc(o, f) ==
    IF o = "is_token_valid" THEN "rlock"
    ELSE IF ForceOf(o, f) THEN "fetch" ELSE "rlock"

\* A faulty cache: the read is not excluded by a write in progress.
CanReadUnguarded(r) == TRUE

\* tokio RwLock: a read guard is granted while no write guard is held.
CanRead(r) == writer[r] = 0

\* A faulty cache: the write is not excluded by another guard.
CanWriteUnguarded(r) == TRUE

\* tokio RwLock: the write guard is granted while no guard at all is held.
CanWrite(r) == writer[r] = 0 /\ readers[r] = 0

\* A faulty lookup: any cached token is taken, is_valid() is not asked.
CacheHitAnyToken(c, t) == c.some

\* The cached-token test of get_jwt_token / is_token_valid at clock value t:
\* `if let Some(ref jwt_info) = *cache { jwt_info.is_valid() }`.
CacheHit(c, t) == c.some /\ IsValid(c, t)

\* Where a caller goes when get_jwt_token returns: back into query_logs
\* when the call was made by a query.
RetPc(o) == IF o \in QueryOps THEN "token_ret" ELSE "done"

\* A faulty get_jwt_token: a failed fetch is tried again.
FailPcRetrying(o) == "fetch"

\* Where a caller goes when fetch_jwt_token fails: `.await?` returns the
\* error from get_jwt_token at once.
FailPc(o) == RetPc(o)

\* The calls in progress that may still send an auth request.
MayFetch == {q \in Procs : Active(q) /\ op[q] # "is_token_valid" /\ ~fetched[q]}

\* The bound on auth requests: it limits the calls made on their own; the
\* loop of an all-regions operation is bounded by the keys it visits.
FetchBudget == m_cur # "" \/ auth_calls + Cardinality(MayFetch) < MaxFetch

\* The clock advances.
Tick(d) ==
    /\ ticks < MaxTicks
    /\ now' = now + d
    /\ ticks' = ticks + 1
    /\ UNCHANGED <<nontoken, jwt_cache, lockvars, callvars, histvars>>

\* A caller starts get_jwt_token(f), refresh_token() or is_token_valid()
\* on the manager of region r, `budget` telling whether the bound on auth
\* requests leaves room for the call.
BeginTokenWithin(p, r, o, f, budget) ==
    /\ ~Active(p)
    /\ o # "is_token_valid" => budget
    /\ pc' = [pc EXCEPT ![p] = StartPc(o, f)]
    /\ op' = [op EXCEPT ![p] =
                IF o = "refresh_token" THEN "get_jwt_token" ELSE o]
    /\ reg' = [reg EXCEPT ![p] = r]
    /\ force' = [force EXCEPT ![p] = ForceOf(o, f)]
    /\ jwt_info' = [jwt_info EXCEPT ![p] = NoJwt]
    /\ ret' = [ret EXCEPT ![p] = NoRet]
    /\ fetched' = [fetched EXCEPT ![p] = FALSE]
    /\ a_outcome' = [a_outcome EXCEPT ![p] = "none"]
    /\ plain' = (plain /\ o = "get_jwt_token" /\ ~f
                 /\ \A q \in Procs \ {p} : ~Active(q))
    /\ UNCHANGED <<nontoken, clockvars, jwt_cache, lockvars, auth_calls, issued,
                   issued_at, last_written>>

BeginToken(p, r, o, f) == BeginTokenWithin(p, r, o, f, FetchBudget)

\* `let cache = self.jwt_cache.read().await;`
ReadLock(p) ==
    /\ pc[p] = "rlock"
    /\ CanRead(CacheCell(p))
    /\ readers' = [readers EXCEPT ![CacheCell(p)] = @ + 1]
    /\ pc' = [pc EXCEPT ![p] = "read"]
    /\ UNCHANGED <<nontoken, clockvars, jwt_cache, writer, op, reg, force, jwt_info,
                   ret, fetched, a_outcome, histvars>>

\* A faulty lookup: on a miss the read guard is still held when the call
\* goes on to the fetch and to the write lock.
ReadCacheKeepingGuard(p) ==
    /\ pc[p] = "read"
    /\ LET c == jwt_cache[CacheCell(p)]
           hit == CacheHit(c, now)
       IN IF op[p] = "is_token_valid"
          THEN /\ ret' = [ret EXCEPT ![p] = BoolRet(hit)]
               /\ pc' = [pc EXCEPT ![p] = "done"]
               /\ readers' = [readers EXCEPT ![CacheCell(p)] = @ - 1]
          ELSE IF hit
          THEN /\ ret' = [ret EXCEPT ![p] = OkToken(c.token)]
               /\ pc' = [pc EXCEPT ![p] = RetPc(op[p])]
               /\ readers' = [readers EXCEPT ![CacheCell(p)] = @ - 1]
          ELSE /\ ret' = ret
               /\ pc' = [pc EXCEPT ![p] = "fetch"]
               /\ readers' = readers
    /\ UNCHANGED <<nontoken, clockvars, jwt_cache, writer, op, reg, force, jwt_info,
                   fetched, a_outcome, histvars>>

\* The read of the cell under the read guard, the is_valid test and the drop
\* of the guard: a hit returns the cached token, a miss goes on to the fetch.
ReadCache(p) ==
    /\ pc[p] = "read"
    /\ LET c == jwt_cache[CacheCell(p)]
           hit == CacheHit(c, now)
       IN /\ readers' = [readers EXCEPT ![CacheCell(p)] = @ - 1]
          /\ IF op[p] = "is_token_valid"
             THEN /\ ret' = [ret EXCEPT ![p] = BoolRet(hit)]
                  /\ pc' = [pc EXCEPT ![p] = "done"]
             ELSE IF hit
             THEN /\ ret' = [ret EXCEPT ![p] = OkToken(c.token)]
                  /\ pc' = [pc EXCEPT ![p] = RetPc(op[p])]
             ELSE /\ ret' = ret
                  /\ pc' = [pc EXCEPT ![p] = "fetch"]
    /\ UNCHANGED <<nontoken, clockvars, jwt_cache, writer, op, reg, force, jwt_info,
                   fetched, a_outcome, histvars>>

\* A faulty get_jwt_token: the write guard is taken before the fetch and
\* held while the request is in flight.
FetchSendUnderWriteLock(p) ==
    /\ pc[p] = "fetch"
    /\ CanWrite(CacheCell(p))
    /\ writer' = [writer EXCEPT ![CacheCell(p)] = p]
    /\ auth_calls' = auth_calls + 1
    /\ fetched' = [fetched EXCEPT ![p] = TRUE]
    /\ pc' = [pc EXCEPT ![p] = "await_auth"]
    /\ UNCHANGED <<nontoken, clockvars, jwt_cache, readers, op, reg, force, jwt_info,
                   ret, a_outcome, issued, issued_at, last_written, plain>>

\* fetch_jwt_token: the GET to the auth endpoint is sent.
FetchSend(p) ==
    /\ pc[p] = "fetch"
    /\ auth_calls' = auth_calls + 1
    /\ fetched' = [fetched EXCEPT ![p] = TRUE]
    /\ pc' = [pc EXCEPT ![p] = "await_auth"]
    /\ UNCHANGED <<nontoken, clockvars, jwt_cache, lockvars, op, reg, force, jwt_info,
                   ret, a_outcome, issued, issued_at, last_written, plain>>

\* A faulty get_jwt_token: a failed fetch empties the cache.
AuthResponseClearingCache(p, outcome) ==
    /\ pc[p] = "await_auth"
    /\ a_outcome' = [a_outcome EXCEPT ![p] = outcome]
    /\ IF FetchSucceeds(outcome)
       THEN /\ jwt_info' = [jwt_info EXCEPT ![p] =
                              JwtInfoNew(Len(issued) + 1, TOKEN_LIFETIME, now)]
            /\ issued' = Append(issued,
                                JwtInfoNew(Len(issued) + 1, TOKEN_LIFETIME, now))
            /\ issued_at' = Append(issued_at, now)
            /\ pc' = [pc EXCEPT ![p] = "wlock"]
            /\ UNCHANGED <<ret, plain, jwt_cache>>
       ELSE /\ ret' = [ret EXCEPT ![p] = FetchError(outcome)]
            /\ pc' = [pc EXCEPT ![p] = FailPc(op[p])]
            /\ plain' = FALSE
            /\ jwt_cache' = [jwt_cache EXCEPT ![CacheCell(p)] = NoJwt]
            /\ UNCHANGED <<jwt_info, issued, issued_at>>
    /\ UNCHANGED <<nontoken, clockvars, lockvars, op, reg, force, fetched,
                   auth_calls, last_written>>

\* fetch_jwt_token: the answer arrives. On 2xx with the x-jwt-token header
\* the JwtInfo is built with the fixed lifetime; every other outcome is the
\* call's error (`?`), and the cache is not touched.
AuthResponse(p, outcome) ==
    /\ pc[p] = "await_auth"
    /\ a_outcome' = [a_outcome EXCEPT ![p] = outcome]
    /\ IF FetchSucceeds(outcome)
       THEN /\ jwt_info' = [jwt_info EXCEPT ![p] =
                              JwtInfoNew(Len(issued) + 1, TOKEN_LIFETIME, now)]
            /\ issued' = Append(issued,
                                JwtInfoNew(Len(issued) + 1, TOKEN_LIFETIME, now))
            /\ issued_at' = Append(issued_at, now)
            /\ pc' = [pc EXCEPT ![p] = "wlock"]
            /\ UNCHANGED <<ret, plain>>
       ELSE /\ ret' = [ret EXCEPT ![p] = FetchError(outcome)]
            /\ pc' = [pc EXCEPT ![p] = FailPc(op[p])]
            /\ plain' = FALSE
            /\ UNCHANGED <<jwt_info, issued, issued_at>>
    /\ UNCHANGED <<nontoken, clockvars, jwt_cache, lockvars, op, reg, force, fetched,
                   auth_calls, last_written>>

\* `let mut cache = self.jwt_cache.write().await;`
WriteLock(p) ==
    /\ pc[p] = "wlock"
    /\ CanWrite(CacheCell(p))
    /\ writer' = [writer EXCEPT ![CacheCell(p)] = p]
    /\ pc' = [pc EXCEPT ![p] = "write_token"]
    /\ UNCHANGED <<nontoken, clockvars, jwt_cache, readers, op, reg, force, jwt_info,
                   ret, fetched, a_outcome, histvars>>


\* A faulty store: the regions' managers share one cell, so the token is
\* stored for every region.
WriteTokenEveryRegion(p) ==
    /\ pc[p] = "write_token"
    /\ jwt_cache' = [c \in Cells |->
                       [some |-> TRUE, token |-> jwt_info[p].token,
                        expires_at |-> jwt_cache[c].expires_at]]
    /\ pc' = [pc EXCEPT ![p] = "write_expiry"]
    /\ UNCHANGED <<nontoken, clockvars, lockvars, op, reg, force, jwt_info, ret,
                   fetched, a_outcome, histvars>>

\* `*cache = Some(jwt_info.clone());` is a store of several words: first the
\* token field of the cell ...
WriteToken(p) ==
    /\ pc[p] = "write_token"
    /\ jwt_cache' = [jwt_cache EXCEPT ![CacheCell(p)] =
                       [some |-> TRUE, token |-> jwt_info[p].token,
                        expires_at |-> @.expires_at]]
    /\ pc' = [pc EXCEPT ![p] = "write_expiry"]
    /\ UNCHANGED <<nontoken, clockvars, lockvars, op, reg, force, jwt_info, ret,
                   fetched, a_outcome, histvars>>

\* ... then the expires_at field; the write guard is dropped at the end of
\* the block, the call returns Ok(jwt_info.token) and its local is gone.
WriteExpiry(p) ==
    /\ pc[p] = "write_expiry"
    /\ jwt_cache' = [jwt_cache EXCEPT ![CacheCell(p)] =
                       [@ EXCEPT !.expires_at = jwt_info[p].expires_at]]
    /\ writer' = [writer EXCEPT ![CacheCell(p)] = 0]
    /\ last_written' = [last_written EXCEPT ![reg[p]] = jwt_info[p]]
    /\ ret' = [ret EXCEPT ![p] = OkToken(jwt_info[p].token)]
    /\ jwt_info' = [jwt_info EXCEPT ![p] = NoJwt]
    /\ pc' = [pc EXCEPT ![p] = RetPc(op[p])]
    /\ UNCHANGED <<nontoken, clockvars, readers, op, reg, force, fetched, a_outcome, auth_calls,
                   issued, issued_at, plain>>

\* The region whose manager the concurrent callers share.
SharedRegion == "us"

\* One step of get_jwt_token / is_token_valid by caller p, the auth endpoint
\* answering with one of `outcomes`.
TokenStepWith(p, outcomes) ==
    \/ ReadLock(p)
    \/ ReadCache(p)
    \/ FetchSend(p)
    \/ \E outcome \in outcomes : AuthResponse(p, outcome)
    \/ WriteLock(p)
    \/ WriteToken(p)
    \/ WriteExpiry(p)

TokenStep(p) == TokenStepWith(p, AuthOutcomes)

Next ==
    \/ \E d \in TickSteps : Tick(d)
    \/ \E p \in Procs, o \in TokenOps, f \in BOOLEAN :
          BeginToken(p, SharedRegion, o, f)
    \/ \E p \in Procs : TokenStep(p)

\* Concurrent callers of one region's AuthManager.
Spec == Init /\ [][Next]_vars

\* The auth requests the overlapping calls may send: one to fill the cache,
\* one in flight, one for the call that looks the token up meanwhile.
OverlapBudget == auth_calls + Cardinality(MayFetch) < MaxFetch + 1

\* The auth endpoint's answers while calls overlap: a token or the timeout.
OverlapAuthOutcomes == {"ok", "timeout"}

OverlapNext ==
    \/ \E p \in Procs, f \in BOOLEAN :
          BeginTokenWithin(p, SharedRegion, "get_jwt_token", f, OverlapBudget)
    \/ \E p \in Procs : TokenStepWith(p, OverlapAuthOutcomes)

\* get_jwt_token calls overlapping on one region's AuthManager, a fetch of
\* one in flight while the other looks the cache up.
SpecOverlap == Init /\ [][OverlapNext]_vars

(* ------------------------------------------------------------------ *)
(* JwtInfo::new / JwtInfo::is_valid on their own                       *)
(* ------------------------------------------------------------------ *)

\* Lifetimes given to JwtInfo::new: the 3600 of fetch_jwt_token, the 200 of
\* test_jwt_info_validity, and the values around the safety margin.
Lifetimes ==
    {0, 200, SAFETY_MARGIN - 1, SAFETY_MARGIN, SAFETY_MARGIN + 1,
     TOKEN_LIFETIME}

\* `let jwt_info = JwtInfo::new("test_token".to_string(), life);`
JwtCreate(life) ==
    /\ t_jwt' = JwtInfoNew(0, life, now)
    /\ t_life' = life
    /\ t_check' = NoCheck
    /\ UNCHANGED <<tokvars, queryvars, extractvars, extravars>>

\* `jwt_info.is_valid()`
JwtIsValid ==
    /\ t_jwt.some
    /\ t_check' = [done |-> TRUE, val |-> IsValid(t_jwt, now), at |-> now]
    /\ UNCHANGED <<tokvars, t_jwt, t_life, queryvars, extractvars, extravars>>

JwtNext ==
    \/ \E d \in TickSteps : Tick(d)
    \/ \E life \in Lifetimes : JwtCreate(life)
    \/ JwtIsValid

SpecJwt == Init /\ [][JwtNext]_vars

(* ------------------------------------------------------------------ *)
(* LogQueryClient::query_logs / get_log_details                        *)
(* ------------------------------------------------------------------ *)

\* A caller starts query_logs or get_log_details on the client of region
\* r. An unconfigured region is refused at once; otherwise the query calls
\* get_jwt_token(false) of its manager.
BeginQuery(p, r, o) ==
    /\ ~Active(p)
    /\ FetchBudget
    /\ op' = [op EXCEPT ![p] = o]
    /\ reg' = [reg EXCEPT ![p] = r]
    /\ force' = [force EXCEPT ![p] = FALSE]
    /\ jwt_info' = [jwt_info EXCEPT ![p] = NoJwt]
    /\ fetched' = [fetched EXCEPT ![p] = FALSE]
    /\ a_outcome' = [a_outcome EXCEPT ![p] = "none"]
    /\ q_token' = [q_token EXCEPT ![p] = 0]
    /\ q_posts' = [q_posts EXCEPT ![p] = 0]
    /\ q_outcome' = [q_outcome EXCEPT ![p] = "none"]
    /\ q_raw' = [q_raw EXCEPT ![p] = EmptyResponse]
    /\ q_response' = [q_response EXCEPT ![p] = NoResponse]
    /\ q_details' = [q_details EXCEPT ![p] = NoDetails]
    /\ IF IsConfigured(GetRegionConfig(r))
       THEN /\ pc' = [pc EXCEPT ![p] = StartPc("get_jwt_token", FALSE)]
            /\ ret' = [ret EXCEPT ![p] = NoRet]
       ELSE /\ pc' = [pc EXCEPT ![p] = "done"]
            /\ ret' = [ret EXCEPT ![p] = Err("RegionNotConfigured", r)]
    /\ plain' = (plain /\ \A q \in Procs \ {p} : ~Active(q))
    /\ UNCHANGED <<clockvars, jwt_cache, lockvars, auth_calls, issued,
                   issued_at, last_written, jwtvars, extractvars, extravars>>

\* A faulty query_logs: the error of get_jwt_token is dropped and the
\* request is sent with an empty token.
QueryTokenReturnPostingAnyway(p) ==
    /\ pc[p] = "token_ret"
    /\ q_token' = [q_token EXCEPT ![p] = ret[p].token]
    /\ pc' = [pc EXCEPT ![p] = "post"]
    /\ ret' = ret
    /\ UNCHANGED <<clockvars, jwt_cache, lockvars, op, reg, force, jwt_info,
                   fetched, a_outcome, histvars, jwtvars, extractvars, extravars, q_posts,
                   q_outcome, q_raw, q_response, q_details>>

\* get_jwt_token has returned into query_logs: the token is kept for the
\* request header, an error is wrapped and ends the query (`?`).
QueryTokenReturn(p) ==
    /\ pc[p] = "token_ret"
    /\ IF ret[p].kind = "ok"
       THEN /\ q_token' = [q_token EXCEPT ![p] = ret[p].token]
            /\ pc' = [pc EXCEPT ![p] = "post"]
            /\ ret' = ret
       ELSE /\ ret' = [ret EXCEPT ![p] = WrapTokenError(ret[p])]
            /\ pc' = [pc EXCEPT ![p] = "done"]
            /\ q_token' = q_token
    /\ UNCHANGED <<clockvars, jwt_cache, lockvars, op, reg, force, jwt_info,
                   fetched, a_outcome, histvars, jwtvars, extractvars, extravars, q_posts,
                   q_outcome, q_raw, q_response, q_details>>

\* The POST to the log service is sent with the token in X-Jwt-Token.
PostSend(p) ==
    /\ pc[p] = "post"
    /\ q_posts' = [q_posts EXCEPT ![p] = @ + 1]
    /\ pc' = [pc EXCEPT ![p] = "await_log"]
    /\ UNCHANGED <<clockvars, jwt_cache, lockvars, op, reg, force, jwt_info,
                   ret, fetched, a_outcome, histvars, jwtvars, extractvars, extravars, q_token,
                   q_outcome, q_raw, q_response, q_details>>

\* The request fails, the status is not 2xx, or the body is not JSON.
LogFailure(p, outcome) ==
    /\ pc[p] = "await_log"
    /\ q_outcome' = [q_outcome EXCEPT ![p] = outcome]
    /\ ret' = [ret EXCEPT ![p] = LogError(outcome, reg[p])]
    /\ pc' = [pc EXCEPT ![p] = "done"]
    /\ UNCHANGED <<clockvars, jwt_cache, lockvars, op, reg, force, jwt_info,
                   fetched, a_outcome, histvars, jwtvars, extractvars, extravars, q_token, q_posts,
                   q_raw, q_response, q_details>>

\* A 2xx answer with the JSON body `body`: the value to decode is selected,
\* decoded into LogData (JsonParseError when it does not decode) and the
\* LogQueryResponse is built; get_log_details then builds its result.
LogSuccess(p, body) ==
    /\ pc[p] = "await_log"
    /\ q_outcome' = [q_outcome EXCEPT ![p] = "json"]
    /\ q_raw' = [q_raw EXCEPT ![p] = body]
    /\ IF LogDataDecodes(SelectData(body))
       THEN /\ q_response' = [q_response EXCEPT ![p] =
                                BuildResponse(body, reg[p])]
            /\ q_details' = [q_details EXCEPT ![p] =
                               IF op[p] = "get_log_details"
                               THEN BuildDetails(BuildResponse(body, reg[p]))
                               ELSE NoDetails]
            /\ ret' = [ret EXCEPT ![p] = OkQuery]
       ELSE /\ ret' = [ret EXCEPT ![p] = Err("JsonParseError", "data")]
            /\ UNCHANGED <<q_response, q_details>>
    /\ pc' = [pc EXCEPT ![p] = "done"]
    /\ UNCHANGED <<clockvars, jwt_cache, lockvars, op, reg, force, jwt_info,
                   fetched, a_outcome, histvars, jwtvars, extractvars, extravars, q_token, q_posts>>

\* The caller of the sequential query runs.
QueryProc == 1

\* A few bodies of each shape: `data` with items, `data` with items beside
\* top-level members, top-level items only, neither, `data` without items,
\* items that do not decode.
SampleBodies ==
    {[EmptyResponse EXCEPT !.data = JsonObj(ItemsArr(<<ItemA>>), "absent", "absent")],
     [EmptyResponse EXCEPT !.data = JsonObj(ItemsArr(<<ItemB>>), "metaB", "absent"),
                           !.meta = "metaA", !.tag_infos = "tagA"],
     [EmptyResponse EXCEPT !.items = ItemsArr(<<ItemB>>), !.meta = "metaA"],
     EmptyResponse,
     [EmptyResponse EXCEPT !.data = JsonObj(ItemsAbsent, "absent", "absent")],
     [EmptyResponse EXCEPT !.data = JsonObj(ItemsBad, "absent", "absent")]}

QueryNext ==
    \/ \E r \in Regions, o \in QueryOps : BeginQuery(QueryProc, r, o)
    \/ TokenStep(QueryProc)
    \/ QueryTokenReturn(QueryProc)
    \/ PostSend(QueryProc)
    \/ \E outcome \in LogFailures : LogFailure(QueryProc, outcome)
    \/ \E body \in SampleBodies : LogSuccess(QueryProc, body)

\* One caller issuing queries one after the other, on any region, the auth
\* and log endpoints answering in any way.
SpecQuery == Init /\ [][QueryNext]_vars

\* The region of the client whose normalisation is explored.
ShapeRegion == "us"

ShapeNext ==
    \/ \E o \in QueryOps : BeginQuery(QueryProc, ShapeRegion, o)
    \/ TokenStepWith(QueryProc, {"ok"})
    \/ QueryTokenReturn(QueryProc)
    \/ PostSend(QueryProc)
    \/ \E body \in Responses : LogSuccess(QueryProc, body)

\* One caller issuing queries on a configured region whose endpoints answer
\* 2xx, the log endpoint with every JSON body of the bounded shapes.
SpecShape == Init /\ [][ShapeNext]_vars

(* ------------------------------------------------------------------ *)
(* extract_log_messages on its own                                     *)
(* ------------------------------------------------------------------ *)

\* Number of items, values and key-value entries of the LogData built.
MaxShape == 6

\* The key-value entries a LogValue may hold.
KvPool ==
    {Kv("_msg", <<"x", "a", "b", "S", "S", "y">>), Kv("_msg", <<"y">>),
     Kv("_location", <<"a", "b", "N">>), Kv("other", <<"x">>)}

RECURSIVE SumLens(_, _)
SumLens(seq, i) ==
    IF i > Len(seq) THEN 0 ELSE Len(seq[i]) + SumLens(seq, i + 1)

ValueSizes(item) == 1 + Len(item.value)
                      + SumLens([j \in 1..Len(item.value) |->
                                   item.value[j].kv_list], 1)

RECURSIVE ShapeSize(_, _)
ShapeSize(items, i) ==
    IF i > Len(items) THEN 0
    ELSE ValueSizes(items[i]) + ShapeSize(items, i + 1)

\* A LogItem is appended to data.items.
ExAddItem ==
    /\ ShapeSize(ex_items, 1) < MaxShape
    /\ ex_items' = Append(ex_items, [id |-> Len(ex_items) + 1, value |-> <<>>])
    /\ ex_done' = FALSE
    /\ ex_msgs' = <<>>
    /\ UNCHANGED <<tokvars, jwtvars, queryvars, extravars>>

\* A LogValue is appended to the last item.
ExAddValue ==
    /\ ShapeSize(ex_items, 1) < MaxShape
    /\ ex_items # <<>>
    /\ LET n == Len(ex_items) IN
       ex_items' = [ex_items EXCEPT ![n].value =
                      Append(@, [id |-> Len(@) + 1, kv_list |-> <<>>])]
    /\ ex_done' = FALSE
    /\ ex_msgs' = <<>>
    /\ UNCHANGED <<tokvars, jwtvars, queryvars, extravars>>

\* A LogKv is appended to the last value of the last item.
ExAddKv(kv) ==
    /\ ShapeSize(ex_items, 1) < MaxShape
    /\ ex_items # <<>>
    /\ ex_items[Len(ex_items)].value # <<>>
    /\ LET n == Len(ex_items)
           m == Len(ex_items[n].value)
       IN ex_items' = [ex_items EXCEPT ![n].value[m].kv_list = Append(@, kv)]
    /\ ex_done' = FALSE
    /\ ex_msgs' = <<>>
    /\ UNCHANGED <<tokvars, jwtvars, queryvars, extravars>>

\* `let messages = self.extract_log_messages(data);`
ExExtract ==
    /\ ~ex_done
    /\ ex_msgs' = ExtractLogMessages(ex_items)
    /\ ex_done' = TRUE
    /\ UNCHANGED <<tokvars, jwtvars, queryvars, extravars, ex_items>>

ExtractNext ==
    \/ ExAddItem
    \/ ExAddValue
    \/ \E kv \in KvPool : ExAddKv(kv)
    \/ ExExtract

SpecExtract == Init /\ [][ExtractNext]_vars

(* ------------------------------------------------------------------ *)
(* MultiRegionLogQuery / MultiRegionAuthManager                        *)
(* ------------------------------------------------------------------ *)

\* `MultiRegionLogQuery::new(keys).await` in an environment where the
\* regions of `creds` have a session and the filter setup succeeds or not.
\* Every manager it builds starts with an empty cache.
DispNew(keys, creds, filters_ok) ==
    /\ disp.state = "none"
    /\ \A p \in Procs : ~Active(p)
    /\ disp' = MultiRegionLogQueryNew(keys, creds, filters_ok)
    /\ UNCHANGED <<tokvars, jwtvars, queryvars, extractvars, redactvars, harnessvars,
                   m_op, m_todo, m_cur, m_results, m_auth>>

\* A faulty lookup: a key with no client is reported as not configured.
UnsupportedKeyAsNotConfigured(p, k, o) ==
    /\ ~Active(p)
    /\ op' = [op EXCEPT ![p] = o]
    /\ reg' = [reg EXCEPT ![p] = k]
    /\ force' = [force EXCEPT ![p] = FALSE]
    /\ jwt_info' = [jwt_info EXCEPT ![p] = NoJwt]
    /\ fetched' = [fetched EXCEPT ![p] = FALSE]
    /\ a_outcome' = [a_outcome EXCEPT ![p] = "none"]
    /\ q_token' = [q_token EXCEPT ![p] = 0]
    /\ q_posts' = [q_posts EXCEPT ![p] = 0]
    /\ q_outcome' = [q_outcome EXCEPT ![p] = "none"]
    /\ q_raw' = [q_raw EXCEPT ![p] = EmptyResponse]
    /\ q_response' = [q_response EXCEPT ![p] = NoResponse]
    /\ q_details' = [q_details EXCEPT ![p] = NoDetails]
    /\ pc' = [pc EXCEPT ![p] = "done"]
    /\ ret' = [ret EXCEPT ![p] = Err("RegionNotConfigured", k)]
    /\ UNCHANGED <<clockvars, jwt_cache, lockvars, histvars, jwtvars,
                   extractvars, extravars>>

\* query_logs_region / get_log_details_region for a key with no client:
\* `self.clients.get(region).ok_or_else(UnsupportedRegion)?`.
UnsupportedKey(p, k, o) ==
    /\ ~Active(p)
    /\ op' = [op EXCEPT ![p] = o]
    /\ reg' = [reg EXCEPT ![p] = k]
    /\ force' = [force EXCEPT ![p] = FALSE]
    /\ jwt_info' = [jwt_info EXCEPT ![p] = NoJwt]
    /\ fetched' = [fetched EXCEPT ![p] = FALSE]
    /\ a_outcome' = [a_outcome EXCEPT ![p] = "none"]
    /\ q_token' = [q_token EXCEPT ![p] = 0]
    /\ q_posts' = [q_posts EXCEPT ![p] = 0]
    /\ q_outcome' = [q_outcome EXCEPT ![p] = "none"]
    /\ q_raw' = [q_raw EXCEPT ![p] = EmptyResponse]
    /\ q_response' = [q_response EXCEPT ![p] = NoResponse]
    /\ q_details' = [q_details EXCEPT ![p] = NoDetails]
    /\ pc' = [pc EXCEPT ![p] = "done"]
    /\ ret' = [ret EXCEPT ![p] = Err("UnsupportedRegion", k)]
    /\ UNCHANGED <<clockvars, jwt_cache, lockvars, histvars, jwtvars,
                   extractvars, extravars>>

\* query_logs_region(k, ..) / get_log_details_region(k, ..): the client of
\* key k runs the query when the dispatcher holds one.
DispQueryRegion(p, k, o) ==
    /\ disp.state = "ok"
    /\ m_cur = ""
    /\ IF k \in disp.clients THEN BeginQuery(p, k, o)
       ELSE UnsupportedKey(p, k, o)

\* The bound on the auth requests of the all-regions operations.
MaxAllFetch == 3

\* An all-regions operation starts: an empty mapping, every held key to
\* visit (`let mut results = HashMap::new(); for .. in &self.managers`).
AllStart(o) ==
    /\ disp.state = "ok"
    /\ m_cur = "" /\ m_todo = {}
    /\ \A p \in Procs : ~Active(p)
    /\ auth_calls + Cardinality(disp.clients) <= MaxAllFetch
    /\ m_op' = o
    /\ m_todo' = disp.clients
    /\ m_results' = [r \in Regions |-> NoRet]
    /\ m_auth' = [r \in Regions |-> "none"]
    /\ UNCHANGED <<tokvars, jwtvars, queryvars, extractvars, redactvars, harnessvars,
                   disp, m_cur>>

\* MultiRegionAuthManager::refresh_all_tokens is called.
RefreshAllStart == AllStart("refresh_all_tokens")

\* query_all is called.
QueryAllStart == AllStart("query_all")

\* The loop takes the next key, in the HashMap's order (any order).
AllPick(p, k) ==
    /\ m_op # "none"
    /\ m_cur = ""
    /\ k \in m_todo
    /\ ~Active(p)
    /\ m_cur' = k
    /\ m_todo' = m_todo \ {k}
    /\ pc' = [pc EXCEPT ![p] = "idle"]
    /\ UNCHANGED <<clockvars, jwt_cache, lockvars, op, reg, force, jwt_info,
                   ret, fetched, a_outcome, histvars, jwtvars, queryvars,
                   extractvars, redactvars, harnessvars, disp, m_op, m_results,
                   m_auth>>

\* `let result = manager.refresh_token().await;`
RefreshAllCall(p) ==
    /\ m_op = "refresh_all_tokens"
    /\ m_cur # ""
    /\ pc[p] = "idle"
    /\ BeginToken(p, m_cur, "refresh_token", FALSE)

\* query_all runs the query of the key's client.
QueryAllCall(p) ==
    /\ m_op = "query_all"
    /\ m_cur # ""
    /\ pc[p] = "idle"
    /\ BeginQuery(p, m_cur, "query_logs")

\* A faulty loop: the first error ends it (`?` on the result).
RemainingAfterAbort(todo, result) == IF result.kind = "err" THEN {} ELSE todo

\* What is left to visit once a key's result is in: the loop has no early
\* exit, the result is inserted whatever it is.
RemainingAfter(todo, result) == todo

\* `results.insert(region.clone(), result);`
AllCollect(p) ==
    /\ m_cur # ""
    /\ pc[p] = "done"
    /\ m_results' = [m_results EXCEPT ![m_cur] = ret[p]]
    /\ m_auth' = [m_auth EXCEPT ![m_cur] = a_outcome[p]]
    /\ m_todo' = RemainingAfter(m_todo, ret[p])
    /\ m_cur' = ""
    /\ UNCHANGED <<tokvars, jwtvars, queryvars, extractvars, redactvars, harnessvars,
                   disp, m_op>>

\* The environment of the runs below: every region has a session, the
\* filter setup succeeds.
AllCreds == Regions

\* The key lists of the dispatchers the all-regions operations run on.
AllKeyLists ==
    {<<"us">>, <<"cn", "us">>, <<"i18n", "us">>, <<"cn", "i18n", "us">>}

\* The bodies the log endpoint answers in these runs.
AllBodies ==
    {[EmptyResponse EXCEPT !.data = JsonObj(ItemsArr(<<ItemA>>), "absent", "absent")],
     [EmptyResponse EXCEPT !.data = JsonObj(ItemsBad, "absent", "absent")]}

AllNext ==
    \/ \E keys \in AllKeyLists : DispNew(keys, AllCreds, TRUE)
    \/ RefreshAllStart
    \/ QueryAllStart
    \/ \E k \in Regions : AllPick(QueryProc, k)
    \/ RefreshAllCall(QueryProc)
    \/ QueryAllCall(QueryProc)
    \/ TokenStep(QueryProc)
    \/ QueryTokenReturn(QueryProc)
    \/ PostSend(QueryProc)
    \/ \E outcome \in LogFailures : LogFailure(QueryProc, outcome)
    \/ \E body \in AllBodies : LogSuccess(QueryProc, body)
    \/ AllCollect(QueryProc)

\* A dispatcher is built and its all-regions operations run, one after the
\* other, the endpoints answering in any way.
SpecAll == Init /\ [][AllNext]_vars

\* What the endpoints answer to the queries of the dispatcher built: a good
\* response or a non-2xx one.
DispatchAuthOutcomes == {"ok", "http_error"}

DispatchLogFailures == {"http_error"}

DispatchNext ==
    \/ \E keys \in KeyLists, creds \in SUBSET Regions, f \in BOOLEAN :
          DispNew(keys, creds, f)
    \/ \E k \in Keys, o \in QueryOps : DispQueryRegion(QueryProc, k, o)
    \/ TokenStepWith(QueryProc, DispatchAuthOutcomes)
    \/ QueryTokenReturn(QueryProc)
    \/ PostSend(QueryProc)
    \/ \E outcome \in DispatchLogFailures : LogFailure(QueryProc, outcome)
    \/ \E body \in AllBodies : LogSuccess(QueryProc, body)

\* A dispatcher is built from any key list in any environment and queried
\* region by region.
SpecDispatch == Init /\ [][DispatchNext]_vars

\* MultiRegionAuthManager::get_jwt_token / refresh_token / is_token_valid
\* for a key with no manager: `get_manager(region).ok_or_else(..)?`.
ManagerMissing(p, k, o) ==
    /\ ~Active(p)
    /\ op' = [op EXCEPT ![p] =
                IF o = "refresh_token" THEN "get_jwt_token" ELSE o]
    /\ reg' = [reg EXCEPT ![p] = k]
    /\ force' = [force EXCEPT ![p] = FALSE]
    /\ jwt_info' = [jwt_info EXCEPT ![p] = NoJwt]
    /\ fetched' = [fetched EXCEPT ![p] = FALSE]
    /\ a_outcome' = [a_outcome EXCEPT ![p] = "none"]
    /\ pc' = [pc EXCEPT ![p] = "done"]
    /\ ret' = [ret EXCEPT ![p] = Err("AuthenticationFailed", k)]
    /\ UNCHANGED <<nontoken, clockvars, jwt_cache, lockvars, histvars>>

\* The dispatcher's MultiRegionAuthManager is asked for the token of key k:
\* the call goes to the manager the map holds for k.
DispTokenRegion(p, k, o, f) ==
    /\ disp.state = "ok"
    /\ m_cur = ""
    /\ IF k \in disp.clients THEN BeginToken(p, k, o, f)
       ELSE ManagerMissing(p, k, o)

\* The answers of the endpoints in the runs below.
SharedAuthOutcomes == {"ok", "timeout"}

SharedLogFailures == {"timeout"}

SharedBodies ==
    {[EmptyResponse EXCEPT !.data = JsonObj(ItemsArr(<<ItemA>>), "absent", "absent")]}

SharedNext ==
    \/ \E keys \in AllKeyLists : DispNew(keys, AllCreds, TRUE)
    \/ \E k \in Regions, o \in QueryOps : DispQueryRegion(QueryProc, k, o)
    \/ \E k \in Regions, o \in TokenOps, f \in BOOLEAN :
          DispTokenRegion(QueryProc, k, o, f)
    \/ TokenStepWith(QueryProc, SharedAuthOutcomes)
    \/ QueryTokenReturn(QueryProc)
    \/ PostSend(QueryProc)
    \/ \E outcome \in SharedLogFailures : LogFailure(QueryProc, outcome)
    \/ \E body \in SharedBodies : LogSuccess(QueryProc, body)

\* A dispatcher is built; its clients are queried and its auth managers
\* asked for tokens, one call after the other.
SpecShared == Init /\ [][SharedNext]_vars

(* ------------------------------------------------------------------ *)
(* Concurrent calls running to completion                              *)
(* ------------------------------------------------------------------ *)

\* The 2xx bodies the log endpoint answers with here.
LiveBodies ==
    {[EmptyResponse EXCEPT !.data = JsonObj(ItemsArr(<<ItemA>>), "absent", "absent")]}

\* The ways an HTTP exchange ends here: a good response, or the timeout.
LiveAuthOutcomes == {"ok", "timeout"}

LiveLogFailures == {"timeout"}

\* A step of caller p that waits for nothing but the runtime polling its
\* task or an HTTP exchange ending.
RunStep(p) ==
    \/ ReadCache(p)
    \/ FetchSend(p)
    \/ \E outcome \in LiveAuthOutcomes : AuthResponse(p, outcome)
    \/ WriteToken(p)
    \/ WriteExpiry(p)
    \/ QueryTokenReturn(p)
    \/ PostSend(p)
    \/ \E outcome \in LiveLogFailures : LogFailure(p, outcome)
    \/ \E body \in LiveBodies : LogSuccess(p, body)

LiveNext ==
    \/ \E p \in Procs, o \in TokenOps, f \in BOOLEAN :
          BeginToken(p, SharedRegion, o, f)
    \/ \E p \in Procs, o \in QueryOps : BeginQuery(p, SharedRegion, o)
    \/ \E p \in Procs : ReadLock(p)
    \/ \E p \in Procs : WriteLock(p)
    \/ \E p \in Procs : RunStep(p)

\* Concurrent token calls and queries on one region. The runtime polls
\* every task that can go on and every HTTP exchange ends (with a response,
\* a transport failure or the 30 s timeout): weak fairness of the steps.
\* tokio's RwLock hands the lock out in the order of the requests, so a
\* waiter gets it once it is released often enough: strong fairness of the
\* two acquisitions.
SpecLive ==
    /\ Init
    /\ [][LiveNext]_vars
    /\ \A p \in Procs :
          /\ WF_vars(RunStep(p))
          /\ SF_vars(ReadLock(p))
          /\ SF_vars(WriteLock(p))

(* ------------------------------------------------------------------ *)
(* filter_message_content on its own                                   *)
(* ------------------------------------------------------------------ *)

\* Number of pieces a message text is put together from.
MaxPieces == 5

\* The pieces: ordinary characters, the characters of the first pattern,
\* the second pattern, a space, a tab, a newline.
Pieces ==
    {<<"x">>, <<"a">>, <<"b">>, <<"c", "d">>, <<"S">>, <<"T">>, <<"N">>}

\* The message grows by one piece.
RedactAppend(piece) ==
    /\ ~r_done
    /\ r_n < MaxPieces
    /\ r_text' = r_text \o piece
    /\ r_n' = r_n + 1
    /\ UNCHANGED <<r_done, r_out, r_again>>
    /\ UNCHANGED <<tokvars, jwtvars, queryvars, extractvars, dispvars,
                   harnessvars>>

\* filter_message_content(message), and once more on what it returned.
RedactRun ==
    /\ ~r_done
    /\ r_done' = TRUE
    /\ r_out' = FilterMessageContent(r_text)
    /\ r_again' = FilterMessageContent(FilterMessageContent(r_text))
    /\ UNCHANGED <<r_text, r_n>>
    /\ UNCHANGED <<tokvars, jwtvars, queryvars, extractvars, dispvars,
                   harnessvars>>

RedactNext ==
    \/ \E piece \in Pieces : RedactAppend(piece)
    \/ RedactRun

\* Message texts of every make-up, each run through the pipeline.
SpecRedact == Init /\ [][RedactNext]_vars

(* ------------------------------------------------------------------ *)
(* get_cas_session on its own                                          *)
(* ------------------------------------------------------------------ *)

\* The environment EnvManager::new collects holds `val` for `name`.
EnvSet(name, val) ==
    /\ e_region = "none"
    /\ e_env' = [e_env EXCEPT ![name] = val]
    /\ UNCHANGED <<e_region, e_ret>>
    /\ UNCHANGED <<tokvars, jwtvars, queryvars, extractvars, dispvars,
                   redactvars, strvars, updvars>>

\* get_cas_session(r) on the environment collected.
EnvLookup(r) ==
    /\ e_region' = r
    /\ e_ret' = GetCasSession(e_env, r)
    /\ UNCHANGED e_env
    /\ UNCHANGED <<tokvars, jwtvars, queryvars, extractvars, dispvars,
                   redactvars, strvars, updvars>>

EnvNext ==
    \/ \E name \in EnvVarNames, val \in EnvValues : EnvSet(name, val)
    \/ \E r \in Regions : EnvLookup(r)

\* Every environment over the session variables, looked up for every
\* region.
SpecEnv == Init /\ [][EnvNext]_vars

(* ------------------------------------------------------------------ *)
(* Region::from_str on its own                                         *)
(* ------------------------------------------------------------------ *)

\* Length of the region strings tried.
MaxKeyLen == 4

\* The string grows by one character.
KeyAppend(ch) ==
    /\ ~s_done
    /\ Len(s_text) < MaxKeyLen
    /\ s_text' = Append(s_text, ch)
    /\ UNCHANGED <<s_done, s_region, s_cfg>>
    /\ UNCHANGED <<tokvars, jwtvars, queryvars, extractvars, dispvars,
                   redactvars, envvars, updvars>>

\* Region::from_str and get_region_config on the string.
KeyParse ==
    /\ ~s_done
    /\ s_done' = TRUE
    /\ s_region' = FromStr(s_text)
    /\ s_cfg' = GetRegionConfigOf(s_text)
    /\ UNCHANGED s_text
    /\ UNCHANGED <<tokvars, jwtvars, queryvars, extractvars, dispvars,
                   redactvars, envvars, updvars>>

StrNext ==
    \/ \E ch \in KeyChars : KeyAppend(ch)
    \/ KeyParse

\* Every string over the characters, parsed.
SpecStr == Init /\ [][StrNext]_vars

(* ------------------------------------------------------------------ *)
(* logid update (commands/update.rs)                                   *)
(* ------------------------------------------------------------------ *)

\* update_command ends with `result`.
UpdEnd(result) ==
    /\ u_pc' = "done"
    /\ u_ret' = result

\* `logid update [--check] [--force]` is started by a binary of version
\* `cur` while the latest release is `latest`.
UpdateBegin(check_only, forced, cur, latest, with_v) ==
    /\ u_pc = "idle"
    /\ u_in' = [check |-> check_only, force |-> forced,
                current |-> VersionString(cur),
                tag |-> TagName(latest, with_v)]
    /\ u_pc' = "release"
    /\ UNCHANGED <<u_events, u_ret>>
    /\ UNCHANGED <<tokvars, jwtvars, queryvars, extractvars, dispvars,
                   redactvars, envvars, strvars>>

\* get_latest_release().await?, then the version gate and the check_only
\* return.
UpdateCompare(release_ok) ==
    /\ u_pc = "release"
    /\ LET latest_version == TrimStartV(u_in.tag) IN
       IF ~release_ok THEN UpdEnd("err_release")
       ELSE IF ~u_in.force /\ StrGeq(u_in.current, latest_version)
       THEN UpdEnd("up_to_date")
       ELSE IF u_in.check THEN UpdEnd("checked")
       ELSE /\ u_pc' = "confirm"
            /\ u_ret' = u_ret
    /\ UNCHANGED <<u_in, u_events>>
    /\ UNCHANGED <<tokvars, jwtvars, queryvars, extractvars, dispvars,
                   redactvars, envvars, strvars>>

\* confirm_update()?: the user answers y or anything else.
UpdateConfirm(yes) ==
    /\ u_pc = "confirm"
    /\ IF yes THEN u_pc' = "download" /\ u_ret' = u_ret
       ELSE UpdEnd("cancelled")
    /\ UNCHANGED <<u_in, u_events>>
    /\ UNCHANGED <<tokvars, jwtvars, queryvars, extractvars, dispvars,
                   redactvars, envvars, strvars>>

\* perform_update: get_platform_asset(release)? and download_file(asset)?
UpdateDownload(outcome) ==
    /\ u_pc = "download"
    /\ CASE outcome = "no_asset" ->
               UpdEnd("err_asset") /\ u_events' = u_events
         [] outcome = "failed" ->
               UpdEnd("err_download") /\ u_events' = Append(u_events, "download")
         [] outcome = "ok" ->
               /\ u_pc' = "verify"
               /\ u_ret' = u_ret
               /\ u_events' = Append(u_events, "download")
    /\ UNCHANGED u_in
    /\ UNCHANGED <<tokvars, jwtvars, queryvars, extractvars, dispvars,
                   redactvars, envvars, strvars>>

\* How verify_checksum may end: Ok, a checksum that differs, no SHA256SUMS
\* asset or no line for the file, a failed request.
ChecksumOutcomes == {"passed", "mismatch", "no_checksum", "failed"}

\* `if let Err(e) = verify_checksum(..).await { println!(..) }`: the result
\* is printed and the update goes on.
UpdateVerify(outcome) ==
    /\ u_pc = "verify"
    /\ u_events' = Append(u_events,
                          IF outcome = "passed" THEN "verified"
                          ELSE "verify_failed")
    /\ u_pc' = "backup"
    /\ UNCHANGED <<u_in, u_ret>>
    /\ UNCHANGED <<tokvars, jwtvars, queryvars, extractvars, dispvars,
                   redactvars, envvars, strvars>>

\* fs::copy(&current_exe, &backup_path)?
UpdateBackup(ok) ==
    /\ u_pc = "backup"
    /\ IF ok
       THEN /\ u_events' = Append(u_events, "backup")
            /\ u_pc' = "replace"
            /\ u_ret' = u_ret
       ELSE UpdEnd("err_backup") /\ u_events' = u_events
    /\ UNCHANGED u_in
    /\ UNCHANGED <<tokvars, jwtvars, queryvars, extractvars, dispvars,
                   redactvars, envvars, strvars>>

\* replace_binary(&download_path, &current_exe)?: set_permissions may fail
\* before the copy; the copy over the current binary may fail after it has
\* started writing.
UpdateReplace(outcome) ==
    /\ u_pc = "replace"
    /\ CASE outcome = "perm_failed" ->
               UpdEnd("err_replace") /\ u_events' = u_events
         [] outcome = "copy_failed" ->
               UpdEnd("err_replace") /\ u_events' = Append(u_events, "replace")
         [] outcome = "ok" ->
               UpdEnd("updated") /\ u_events' = Append(u_events, "replace")
    /\ UNCHANGED u_in
    /\ UNCHANGED <<tokvars, jwtvars, queryvars, extractvars, dispvars,
                   redactvars, envvars, strvars>>

UpdateNext ==
    \/ \E check_only \in BOOLEAN, forced \in BOOLEAN, cur \in Versions,
          latest \in Versions, with_v \in BOOLEAN :
          UpdateBegin(check_only, forced, cur, latest, with_v)
    \/ \E ok \in BOOLEAN : UpdateCompare(ok)
    \/ \E yes \in BOOLEAN : UpdateConfirm(yes)
    \/ \E outcome \in {"no_asset", "failed", "ok"} : UpdateDownload(outcome)
    \/ \E outcome \in ChecksumOutcomes : UpdateVerify(outcome)
    \/ \E ok \in BOOLEAN : UpdateBackup(ok)
    \/ \E outcome \in {"perm_failed", "copy_failed", "ok"} :
          UpdateReplace(outcome)

\* One run of `logid update`, with any flags and versions, every request
\* and file operation ending in any way.
SpecUpdate == Init /\ [][UpdateNext]_vars

(* ------------------------------------------------------------------ *)
(* Claims                                                              *)
(* ------------------------------------------------------------------ *)

\* The JwtInfo values that one successful fetch built, each a complete
\* (token, expires_at) pair.
IssuedSet == {issued[i] : i \in 1..Len(issued)}

\* A cache cell as some single fetch wrote it, or the empty cell.
Complete(c) == c = NoJwt \/ c \in IssuedSet

Quiescent == \A p \in Procs : ~Active(p)

\* C1, first part: as long as every call so far was a non-forced
\* get_jwt_token made alone and no fetch failed, once each caller has
\* completed a call (two sequential calls or more) before 3300 s have passed
\* since the first fetch, exactly one auth request has been sent.
C1_OneFetchForSequentialCalls ==
    ( /\ plain
      /\ \A p \in Procs : pc[p] = "done"
      /\ Len(issued_at) >= 1
      /\ now < issued_at[1] + 3300 )
    => auth_calls = 1

\* C1, second part: the cache lookup of a non-forced get_jwt_token that finds
\* the token fetched at time t returns that token without an auth request
\* when made before t + 3300 s, and goes on to a new fetch when made at or
\* after t + 3300 s (or when the cache is empty); the step that leaves the
\* fetch position is the sending of one auth request.
C1_ReuseStep ==
    \A p \in Procs :
      /\ (pc[p] = "read" /\ op[p] = "get_jwt_token" /\ pc'[p] # "read") =>
            LET c == jwt_cache[reg[p]] IN
            IF c.some /\ c.token \in 1..Len(issued_at)
                      /\ now < issued_at[c.token] + 3300
            THEN /\ pc'[p] = "done"
                 /\ ret'[p] = OkToken(c.token)
                 /\ ~fetched'[p]
                 /\ auth_calls' = auth_calls
            ELSE pc'[p] = "fetch"
      /\ (pc[p] = "fetch" /\ pc'[p] # "fetch") =>
            (auth_calls' = auth_calls + 1 /\ fetched'[p])

\* C1: token reuse. Two sequential non-forced calls from an empty cache send
\* one auth request; a token fetched at t is reused by every non-forced call
\* before t + 3300 s and refetched by a call at or after t + 3300 s.
C1_TokenReuse == []C1_OneFetchForSequentialCalls /\ [][C1_ReuseStep]_vars

\* Two sequential non-forced calls from an empty cache have completed: the
\* first fetched token 1, the second returned the same token without a fetch.
C1_Witness ==
    /\ plain
    /\ pc[1] = "done" /\ pc[2] = "done"
    /\ fetched[1] /\ ~fetched[2]
    /\ ret[1] = OkToken(1) /\ ret[2] = OkToken(1)
    /\ auth_calls = 1

\* C2: every evaluation of is_valid at clock value `at` on a token is true
\* exactly when at < expires_at - 300 (stated as at + 300 < expires_at), so
\* it is false at exactly expires_at - 300, and a token built with a
\* lifetime of 300 s or less is never usable.
C2_IsValidBoundary ==
    t_check.done =>
      /\ t_check.val = (t_check.at + 300 < t_jwt.expires_at)
      /\ (t_check.at + 300 = t_jwt.expires_at => ~t_check.val)
      /\ (t_life <= 300 => ~t_check.val)

\* is_valid was evaluated exactly at expires_at - 300 on a one-hour token
\* and answered false.
C2_Witness ==
    /\ t_check.done
    /\ t_life = 3600
    /\ t_check.at + 300 = t_jwt.expires_at
    /\ ~t_check.val

\* C3, state part: a forced call never looks the cache up, and once it has
\* left the fetch position it has sent an auth request.
C3_ForcedAlwaysFetches ==
    \A p \in Procs :
      force[p] =>
        /\ pc[p] \notin {"rlock", "read"}
        /\ (pc[p] # "fetch" => fetched[p])

\* C3, step part: the step that completes the write after a successful fetch
\* leaves the cache cell equal to the JwtInfo this call's fetch built, as a
\* whole, and the call returns that token.
C3_ReplaceStep ==
    \A p \in Procs :
      (pc[p] = "write_expiry" /\ pc'[p] = "done") =>
        /\ jwt_info[p] \in IssuedSet
        /\ jwt_cache'[reg[p]] = jwt_info[p]
        /\ ret'[p] = OkToken(jwt_info[p].token)

\* C3: forced refresh always fetches, whatever the cache holds; on success
\* the cache entry is replaced wholesale and the new token is returned.
C3_ForcedRefresh == []C3_ForcedAlwaysFetches /\ [][C3_ReplaceStep]_vars

\* A forced call that started while token 1 was cached and still usable has
\* fetched token 2, stored it and returned it.
C3_Witness ==
    \E p \in Procs :
      /\ force[p] /\ pc[p] = "done" /\ fetched[p]
      /\ ret[p] = OkToken(2)
      /\ jwt_cache[reg[p]] = issued[2]
      /\ now < issued_at[1] + 3300

\* C4: whenever a caller holds the read guard and reads the cell (the lookup
\* of get_jwt_token or of is_token_valid), the cell is empty or is a
\* complete (token, expires_at) pair built by one single successful fetch;
\* a half-written cell exists only under the write guard with no reader.
C4_ReadsSeeWholeEntries ==
    /\ \A p \in Procs : pc[p] = "read" => Complete(jwt_cache[reg[p]])
    /\ \A r \in Regions :
         ~Complete(jwt_cache[r]) => (writer[r] # 0 /\ readers[r] = 0)

\* A refresh is half way through its write (the cell holds the new token
\* with the old expiry) while another caller is waiting to read.
C4_Witness ==
    \E p, q \in Procs :
      /\ pc[p] = "rlock"
      /\ pc[q] = "write_expiry"
      /\ reg[p] = reg[q]
      /\ ~Complete(jwt_cache[reg[q]])

\* C5: concurrent refreshes are not de-duplicated: every call that is about
\* to write holds the JwtInfo of its own fetch, different from every other
\* call's, and returns it; once all calls have completed the cell holds
\* exactly the entry of the write that completed last.
C5_LastWriterWins ==
    /\ \A p \in Procs :
         pc[p] \in {"wlock", "write_token", "write_expiry"} =>
           /\ fetched[p]
           /\ jwt_info[p] \in IssuedSet
           /\ \A q \in Procs \ {p} : jwt_info[q] # jwt_info[p]
    /\ \A p, q \in Procs :
         ( /\ p # q
           /\ pc[p] = "done" /\ pc[q] = "done"
           /\ fetched[p] /\ fetched[q]
           /\ ret[p].kind = "ok" /\ ret[q].kind = "ok" )
         => ret[p].token # ret[q].token
    /\ Quiescent => \A r \in Regions : jwt_cache[r] = last_written[r]

\* Two refreshes overlapped: both fetched and returned their own tokens, and
\* the cell holds token 1, whose fetch completed first but whose write
\* completed last.
C5_Witness ==
    /\ pc[1] = "done" /\ pc[2] = "done"
    /\ fetched[1] /\ fetched[2]
    /\ ret[1].kind = "ok" /\ ret[2].kind = "ok"
    /\ ret[1].token # ret[2].token
    /\ auth_calls = 2
    /\ jwt_cache[SharedRegion] = issued[1]
    /\ last_written[SharedRegion] = issued[1]

\* C6, state part: a query on a region whose config has configured = false
\* has ended with RegionNotConfigured naming the region, has sent neither an
\* auth request nor a log POST, and that region's cache cell is empty.
C6_UnconfiguredRefused ==
    /\ \A p \in Procs :
         (op[p] \in QueryOps /\ ~GetRegionConfig(reg[p]).configured) =>
           /\ pc[p] = "done"
           /\ ret[p] = Err("RegionNotConfigured", reg[p])
           /\ ~fetched[p]
           /\ q_posts[p] = 0
           /\ q_token[p] = 0
    /\ \A r \in Regions :
         ~GetRegionConfig(r).configured => jwt_cache[r] = NoJwt

\* C6, step part: the step by which a query is made on an unconfigured
\* region sends no auth request and leaves every cache cell as it was.
C6_RefusalStep ==
    \A p \in Procs :
      ( /\ ~Active(p)
        /\ op'[p] \in QueryOps
        /\ ~GetRegionConfig(reg'[p]).configured ) =>
        /\ auth_calls' = auth_calls
        /\ jwt_cache' = jwt_cache
        /\ issued' = issued
        /\ pc'[p] = "done"

\* C6: unconfigured region. query_logs / get_log_details on a region with
\* configured = false fails with RegionNotConfigured, makes no HTTP call
\* (no auth fetch, no log POST) and leaves the token cache unchanged.
C6_UnconfiguredRegion == []C6_UnconfiguredRefused /\ [][C6_RefusalStep]_vars

\* After a query on us has fetched and cached token 1, a query on cn has
\* been refused: still one auth request, the us cell still holds token 1.
C6_Witness ==
    /\ op[QueryProc] \in QueryOps
    /\ reg[QueryProc] = "cn"
    /\ pc[QueryProc] = "done"
    /\ ret[QueryProc] = Err("RegionNotConfigured", "cn")
    /\ auth_calls = 1
    /\ jwt_cache["us"].some
    /\ q_posts[QueryProc] = 0

\* Whether the body holds a `data` object that contains `items`.
DataHasItems(resp) == resp.data.k = "object" /\ resp.data.items.k # "absent"

\* C7: shape ambiguity never fails a query. For every 2xx JSON body with
\* neither a `data` object containing `items` nor a top-level `items`
\* (a `data` object without `items` included), the query succeeds and the
\* result has an empty item list.
C7_ShapeAmbiguityNeverFails ==
    \A p \in Procs :
      ( /\ pc[p] = "done"
        /\ q_outcome[p] = "json"
        /\ ~DataHasItems(q_raw[p])
        /\ q_raw[p].items.k = "absent" ) =>
        /\ ret[p] = OkQuery
        /\ q_response[p].some
        /\ q_response[p].data.items = <<>>

\* The item array the shape priority designates: `data.items` when a `data`
\* object containing `items` exists, otherwise the top-level `items`,
\* otherwise nothing.
PriorityItems(resp) ==
    IF DataHasItems(resp) THEN resp.data.items.v
    ELSE IF resp.items.k # "absent" THEN resp.items.v
    ELSE <<>>

\* C8: shape priority. The item list of a successful response is data.items
\* when a `data` object containing `items` exists (a top-level `items`
\* notwithstanding), otherwise the top-level `items`; total_items of the
\* detail result is the number of entries of the array so selected.
C8_ShapePriority ==
    \A p \in Procs :
      (pc[p] = "done" /\ q_outcome[p] = "json" /\ ret[p] = OkQuery) =>
        /\ q_response[p].some
        /\ q_response[p].data.items = PriorityItems(q_raw[p])
        /\ op[p] = "get_log_details" =>
              /\ q_details[p].some
              /\ q_details[p].total_items = Len(PriorityItems(q_raw[p]))

\* get_log_details succeeded on a body holding both a `data` object with one
\* item and an empty top-level `items`: the one item of `data` was taken.
C8_Witness ==
    /\ pc[QueryProc] = "done"
    /\ op[QueryProc] = "get_log_details"
    /\ ret[QueryProc] = OkQuery
    /\ q_raw[QueryProc].data.k = "object"
    /\ q_raw[QueryProc].data.items = ItemsArr(<<ItemA>>)
    /\ q_raw[QueryProc].items = ItemsArr(<<>>)
    /\ q_response[QueryProc].data.items = <<ItemA>>
    /\ q_details[QueryProc].total_items = 1

\* C9: for every successful response, a `meta` and a `tag_infos` present at
\* the top level of the body (and well-formed) are attached to the result
\* of the single-query path and to the result of the detail path, whichever
\* of the three shape branches produced the items.
C9_TopLevelMetaAttached ==
    \A p \in Procs :
      (pc[p] = "done" /\ q_outcome[p] = "json" /\ ret[p] = OkQuery) =>
        /\ q_raw[p].meta \in {"metaA", "metaB"} =>
              /\ q_response[p].meta = q_raw[p].meta
              /\ op[p] = "get_log_details" =>
                    q_details[p].meta = q_raw[p].meta
        /\ q_raw[p].tag_infos = "tagA" =>
              /\ q_response[p].tag_infos = "tagA"
              /\ op[p] = "get_log_details" =>
                    q_details[p].tag_infos = "tagA"

\* The positions of the entries with key `key` in a kv_list.
KeyPositions(kv_list, key) == {n \in 1..Len(kv_list) : kv_list[n].key = key}

\* The (item, value) positions of the values holding at least one `_msg`.
MsgValues(items) ==
    {ij \in (1..Len(items)) \X (1..MaxShape) :
       /\ ij[2] <= Len(items[ij[1]].value)
       /\ KeyPositions(items[ij[1]].value[ij[2]].kv_list, "_msg") # {}}

\* The rank of position ij among them, in item order then value order.
MsgRank(items, ij) ==
    Cardinality({kl \in MsgValues(items) :
                   kl[1] < ij[1] \/ (kl[1] = ij[1] /\ kl[2] <= ij[2])})

\* C10: message extraction. extract_log_messages yields one message for each
\* value holding at least one `_msg` entry and none for the others, in item
\* order then value order; the message holds one entry per `_msg` entry of
\* the value, in order, each with the redacted text and the unredacted
\* original, and carries the value's (last) `_location` as it is, or no
\* location when the value has none.
C10_MessageExtraction ==
    ex_done =>
      /\ Len(ex_msgs) = Cardinality(MsgValues(ex_items))
      /\ \A ij \in MsgValues(ex_items) :
           LET item == ex_items[ij[1]]
               value == item.value[ij[2]]
               m == ex_msgs[MsgRank(ex_items, ij)]
               msgs == KeyPositions(value.kv_list, "_msg")
               locs == KeyPositions(value.kv_list, "_location")
           IN /\ m.id = <<item.id, value.id>>
              /\ Len(m.values) = Cardinality(msgs)
              /\ \A n \in msgs :
                   LET e == m.values[Cardinality({k \in msgs : k <= n})]
                   IN /\ e.key = "_msg"
                      /\ e.original_value = value.kv_list[n].value
                      /\ e.value = FilterMessageContent(value.kv_list[n].value)
              /\ IF locs = {} THEN m.location = NoneStr
                 ELSE \E n \in locs :
                        /\ \A k \in locs : k <= n
                        /\ m.location = SomeStr(value.kv_list[n].value)

\* extract_log_messages ran on an item whose first value has no `_msg` and
\* whose second value has a `_location` and two `_msg` entries, the first
\* of them changed by the redaction: one message, for the second value.
C10_Witness ==
    /\ ex_done
    /\ Len(ex_items) = 1
    /\ Len(ex_items[1].value) = 2
    /\ KeyPositions(ex_items[1].value[1].kv_list, "_msg") = {}
    /\ Len(ex_msgs) = 1
    /\ ex_msgs[1].id = <<1, 2>>
    /\ Len(ex_msgs[1].values) = 2
    /\ ex_msgs[1].values[1].value # ex_msgs[1].values[1].original_value
    /\ ex_msgs[1].location = SomeStr(<<"a", "b", "N">>)

\* The all-regions operation has visited every key.
AllDone == m_op # "none" /\ m_todo = {} /\ m_cur = ""

\* The keys with an entry in the mapping, with an error entry, with a
\* success entry, and those whose auth fetch failed in this run.
Entries == {r \in Regions : m_results[r] # NoRet}

ErrEntries == {r \in Regions : m_results[r].kind = "err"}

OkEntries == {r \in Regions : m_results[r].kind = "ok"}

FailedAuth == {r \in Regions : m_auth[r] \notin {"none", "ok"}}

\* C11, state part: the mapping of an all-regions operation only holds
\* entries of held keys already visited; once the loop is over it has one
\* entry per held key, each an error or a success; a region whose auth
\* fetch failed has an error entry; for refresh_all_tokens an entry is a
\* success exactly when that region's own fetch succeeded, so three regions
\* with one failing fetch give one error entry and two success entries.
C11_OneEntryPerRegion ==
    /\ Entries \subseteq disp.clients \ m_todo
    /\ AllDone =>
         /\ Entries = disp.clients
         /\ ErrEntries \cup OkEntries = disp.clients
         /\ FailedAuth \subseteq ErrEntries
         /\ m_op = "refresh_all_tokens" =>
               /\ \A r \in disp.clients :
                    m_results[r].kind = "ok" <=> m_auth[r] = "ok"
               /\ (Cardinality(disp.clients) = 3
                      /\ Cardinality(FailedAuth) = 1) =>
                     /\ Cardinality(ErrEntries) = 1
                     /\ Cardinality(OkEntries) = 2

\* C11, step part: while the loop runs, an entry already in the mapping is
\* left as it is, whatever happens to the regions visited later.
C11_EntriesKept ==
    (m_cur # "" \/ m_todo # {}) =>
      \A r \in Regions : m_results[r] # NoRet => m_results'[r] = m_results[r]

KeyConstructs(k, creds, filters_ok) ==
    k \in Regions /\ k \in creds /\ filters_ok

\* C12: dispatcher construction is all-or-nothing. new(keys) has returned a
\* dispatcher exactly when every requested key could be constructed, and
\* that dispatcher holds a client for every requested key; otherwise it has
\* returned an error and no dispatcher: no client is held and nothing was
\* ever run through it, even when other keys could be constructed.
C12_AllOrNothing ==
    disp.state # "none" =>
      /\ disp.state \in {"ok", "err"}
      /\ disp.state = "ok" <=>
           \A i \in 1..Len(disp.keys) :
             KeyConstructs(disp.keys[i], disp.creds, disp.filters_ok)
      /\ disp.state = "ok" =>
           /\ disp.clients = {disp.keys[i] : i \in 1..Len(disp.keys)}
           /\ disp.err = NoRet
      /\ disp.state = "err" =>
           /\ disp.clients = {}
           /\ disp.err.kind = "err"
           /\ \A p \in Procs : pc[p] = "idle"

\* new(<<"us", "i18n">>) was called where us has a session and i18n has
\* none: the first key could be constructed, the call returned an error.
C12_Witness ==
    /\ disp.state = "err"
    /\ disp.keys = <<"us", "i18n">>
    /\ disp.creds = {"us"}
    /\ disp.filters_ok
    /\ disp.err = Err("AuthenticationFailed", "MissingCredentials")
    /\ disp.clients = {}

\* C13, state part: a query made through the dispatcher for a key it does
\* not hold has ended with UnsupportedRegion and sent nothing; a query for
\* a held key whose region is not wired (cn) has ended with
\* RegionNotConfigured and sent nothing; so RegionNotConfigured is only
\* ever the result for a held key and UnsupportedRegion for a key not held.
C13_UnknownKeyUnsupported ==
    \A p \in Procs :
      (disp.state = "ok" /\ op[p] \in QueryOps) =>
        /\ reg[p] \notin disp.clients =>
              /\ pc[p] = "done"
              /\ ret[p] = Err("UnsupportedRegion", reg[p])
              /\ ~fetched[p] /\ q_posts[p] = 0
        /\ (reg[p] \in disp.clients
              /\ ~GetRegionConfig(reg[p]).configured) =>
              /\ pc[p] = "done"
              /\ ret[p] = Err("RegionNotConfigured", reg[p])
              /\ ~fetched[p] /\ q_posts[p] = 0
        /\ ret[p].err = "RegionNotConfigured" => reg[p] \in disp.clients
        /\ ret[p].err = "UnsupportedRegion" => reg[p] \notin disp.clients

\* C13, step part: the step by which a query is made for a key not held
\* sends no auth request and leaves every cache cell as it was.
C13_NoCallStep ==
    \A p \in Procs :
      ( /\ disp.state = "ok"
        /\ ~Active(p)
        /\ op'[p] \in QueryOps
        /\ reg'[p] \notin disp.clients ) =>
        /\ auth_calls' = auth_calls
        /\ jwt_cache' = jwt_cache
        /\ pc'[p] = "done"

\* C13: unknown key against unwired region. UnsupportedRegion without any
\* network call for a key the dispatcher does not hold, RegionNotConfigured
\* for a held unwired region, never the one for the other.
C13_UnsupportedVsNotConfigured ==
    []C13_UnknownKeyUnsupported /\ [][C13_NoCallStep]_vars

\* A dispatcher holding cn and us has served a query on us (one auth
\* request) and then refused a query for the unknown key eu.
C13_Witness ==
    /\ disp.state = "ok"
    /\ disp.clients = {"cn", "us"}
    /\ op[QueryProc] \in QueryOps
    /\ reg[QueryProc] = "eu"
    /\ pc[QueryProc] = "done"
    /\ ret[QueryProc] = Err("UnsupportedRegion", "eu")
    /\ auth_calls = 1
    /\ jwt_cache["us"].some

\* C14, step part: the step that takes the auth answer produces a token
\* exactly when the answer has a 2xx status and the x-jwt-token header;
\* a 2xx without the header is AuthenticationFailed, a non-2xx is
\* AuthenticationFailed carrying the status and body; in every failing case
\* no JwtInfo is built and the cache is not touched.
C14_FetchStep ==
    \A p \in Procs :
      (pc[p] = "await_auth" /\ pc'[p] # "await_auth") =>
        LET o == a_outcome'[p] IN
        IF o \notin TransportFailures /\ o \in {"ok", "no_header"}
             /\ o \in {"ok", "http_error_with_header"}
        THEN /\ jwt_info'[p].some
             /\ issued' = Append(issued, jwt_info'[p])
             /\ pc'[p] = "wlock"
        ELSE /\ ret'[p].kind = "err"
             /\ o \in {"http_error", "http_error_with_header"} =>
                   ret'[p] = Err("AuthenticationFailed", "http_status")
             /\ o = "no_header" =>
                   ret'[p] = Err("AuthenticationFailed", "no_header")
             /\ jwt_info'[p] = NoJwt
             /\ issued' = issued
             /\ jwt_cache' = jwt_cache
             /\ pc'[p] \in {"done", "token_ret"}

\* C14, state part: only a call whose fetch was answered 2xx with the
\* header goes on to write the cache or returns a token it fetched.
C14_OnlySuccessWrites ==
    \A p \in Procs :
      /\ pc[p] \in {"wlock", "write_token", "write_expiry"} =>
            a_outcome[p] = "ok"
      /\ (fetched[p] /\ pc[p] \in {"done", "token_ret"}
            /\ op[p] = "get_jwt_token") =>
            (ret[p].kind = "ok" <=> a_outcome[p] = "ok")

\* C14: auth fetch outcome. Success iff HTTP 2xx and the x-jwt-token
\* header; otherwise AuthenticationFailed (NetworkError when there is no
\* answer), and no token is produced or cached.
C14_AuthFetchOutcome == []C14_OnlySuccessWrites /\ [][C14_FetchStep]_vars

\* A get_jwt_token call on an empty cache was answered 2xx without the
\* header: it returned AuthenticationFailed and the cache is still empty.
C14_Witness ==
    \E p \in Procs :
      /\ pc[p] = "done"
      /\ op[p] = "get_jwt_token"
      /\ fetched[p]
      /\ a_outcome[p] = "no_header"
      /\ ret[p] = Err("AuthenticationFailed", "no_header")
      /\ jwt_cache[reg[p]] = NoJwt
      /\ issued = <<>>

\* C15, state part: when get_jwt_token returns after a failed fetch (to its
\* caller, or into query_logs), its result is the error of the fetch as it
\* was produced; a call whose request failed is over; one query has sent
\* at most one log POST.
C15_ErrorUnchanged ==
    \A p \in Procs :
      /\ (fetched[p] /\ a_outcome[p] \notin {"none", "ok"}) =>
            /\ pc[p] \in {"done", "token_ret"}
            /\ (pc[p] = "token_ret" \/ op[p] = "get_jwt_token") =>
                  ret[p] =
                    CASE a_outcome[p] \in TransportFailures ->
                           Err("NetworkError", "auth")
                      [] a_outcome[p] = "no_header" ->
                           Err("AuthenticationFailed", "no_header")
                      [] OTHER -> Err("AuthenticationFailed", "http_status")
            /\ q_posts[p] = 0
      /\ q_posts[p] <= 1
      /\ q_outcome[p] \in LogFailures => pc[p] = "done"

\* C15, step part: an auth request is sent only by a call that has sent
\* none yet, one at a time; a log POST is sent only by a query that has
\* sent none yet; within a call the record of the request is never reset.
C15_OneRequestPerCall ==
    /\ auth_calls' # auth_calls =>
          /\ auth_calls' = auth_calls + 1
          /\ \E p \in Procs :
                ~fetched[p] /\ fetched'[p] /\ pc[p] = "fetch"
    /\ \A p \in Procs :
          /\ (fetched[p] /\ ~fetched'[p]) => ~Active(p)
          /\ q_posts'[p] > q_posts[p] =>
                (q_posts[p] = 0 /\ q_posts'[p] = 1 /\ pc[p] = "post")
          /\ (q_posts[p] = 1 /\ Active(p)) => q_posts'[p] = 1

\* C15: no retries, unchanged propagation. get_jwt_token hands the fetch
\* error on as it is and sends at most one auth request per call; a query
\* sends at most one auth request and one log POST; nothing is re-sent.
C15_NoRetries == []C15_ErrorUnchanged /\ [][C15_OneRequestPerCall]_vars

\* The get_jwt_token of a query has just returned the NetworkError of its
\* one failed auth request into query_logs.
C15_Witness ==
    /\ pc[QueryProc] = "token_ret"
    /\ op[QueryProc] \in QueryOps
    /\ fetched[QueryProc]
    /\ a_outcome[QueryProc] = "network_error"
    /\ ret[QueryProc] = Err("NetworkError", "auth")
    /\ auth_calls = 1

\* A finished query whose log endpoint answered with a non-2xx status.
Non2xxQuery(p) ==
    /\ pc[p] = "done"
    /\ op[p] \in QueryOps
    /\ q_posts[p] = 1
    /\ q_outcome[p] = "http_error"

\* A finished query whose log endpoint answered 2xx with a JSON body whose
\* selected `data`/`items` payload does not decode into LogData.
UndecodableQuery(p) ==
    /\ pc[p] = "done"
    /\ op[p] \in QueryOps
    /\ q_posts[p] = 1
    /\ q_outcome[p] = "json"
    /\ ~LogDataDecodes(SelectData(q_raw[p]))

\* C16 as stated: a non-2xx answer of the log endpoint fails the query with
\* QueryFailed carrying the region, and so does a 2xx answer whose payload
\* does not decode into the typed shape.
C16_QueryFailedAsStated ==
    \A p \in Procs :
      /\ Non2xxQuery(p) => ret[p] = Err("QueryFailed", reg[p])
      /\ UndecodableQuery(p) => ret[p].err = "QueryFailed"

\* C16, amended: a non-2xx answer of the log endpoint fails the query with
\* QueryFailed carrying the region; a 2xx answer whose payload does not
\* decode into the typed shape fails it with JsonParseError; QueryFailed is
\* returned for a non-2xx answer only, and neither failure yields a result.
C16_QueryFailedTaxonomy ==
    \A p \in Procs :
      /\ Non2xxQuery(p) =>
            /\ ret[p] = Err("QueryFailed", reg[p])
            /\ ~q_response[p].some
      /\ UndecodableQuery(p) =>
            /\ ret[p].kind = "err"
            /\ ret[p].err = "JsonParseError"
            /\ ~q_response[p].some
      /\ (pc[p] = "done" /\ op[p] \in QueryOps
            /\ ret[p].kind = "err" /\ ret[p].err = "QueryFailed") =>
            Non2xxQuery(p)

\* The query in hand, on region "i18n", failed on an undecodable 2xx
\* payload with JsonParseError.
C16_Witness ==
    /\ UndecodableQuery(QueryProc)
    /\ reg[QueryProc] = "i18n"
    /\ ret[QueryProc] = Err("JsonParseError", "data")

\* A finished query whose auth request ended without a response.
AuthTransportFailed(p) ==
    /\ pc[p] = "done"
    /\ op[p] \in QueryOps
    /\ fetched[p]
    /\ a_outcome[p] \in TransportFailures

\* A finished query whose log POST ended without a response.
PostTransportFailed(p) ==
    /\ pc[p] = "done"
    /\ op[p] \in QueryOps
    /\ q_posts[p] = 1
    /\ q_outcome[p] \in TransportFailures

\* C17 as stated: a transport failure or timeout of the auth fetch or of
\* the log POST reaches the caller of the query as NetworkError.
C17_NetworkErrorAsStated ==
    \A p \in Procs :
      (AuthTransportFailed(p) \/ PostTransportFailed(p)) =>
        (ret[p].kind = "err" /\ ret[p].err = "NetworkError")

\* C17, amended: a transport failure or timeout of the log POST reaches
\* the caller of the query as NetworkError, timeout or not; one of the
\* auth fetch is NetworkError when get_jwt_token returns it, and reaches
\* the caller of the query wrapped in AuthenticationFailed, the message
\* quoting the NetworkError, timeout or not; the errors of the log
\* exchange keep their kind.
C17_TransportFailures ==
    \A p \in Procs :
      /\ PostTransportFailed(p) => ret[p] = Err("NetworkError", "post")
      /\ AuthTransportFailed(p) =>
            /\ ret[p] = Err("AuthenticationFailed", "jwt: NetworkError")
            /\ q_posts[p] = 0
      /\ (pc[p] = "token_ret" /\ a_outcome[p] \in TransportFailures
            /\ fetched[p]) =>
            ret[p] = Err("NetworkError", "auth")
      /\ (pc[p] = "done" /\ op[p] \in QueryOps /\ q_posts[p] = 1
            /\ q_outcome[p] = "http_error") =>
            ret[p].err = "QueryFailed"

\* A query has ended on the timeout of its auth request, and its caller
\* holds AuthenticationFailed.
C17_Witness ==
    /\ AuthTransportFailed(QueryProc)
    /\ a_outcome[QueryProc] = "timeout"
    /\ ret[QueryProc].err = "AuthenticationFailed"

\* Texts made of ordinary characters only, one at least.
Ordinary(text) == Len(text) > 0 /\ \A k \in 1..Len(text) : text[k] = "x"

\* The splits of `text` into ordinary text, one match of a configured
\* pattern, a run of two or more spaces/tabs, ordinary text.
PatternThenBlanks(text) ==
    {s \in (1..Len(text)) \X (1..Len(text)) \X (1..Len(text)) :
       /\ s[1] < s[2] /\ s[2] < s[3] /\ s[3] <= Len(text)
       /\ Ordinary(SubSeq(text, 1, s[1] - 1))
       /\ \E f \in 1..Len(MessageFilters) :
             SubSeq(text, s[1], s[2] - 1) = MessageFilters[f]
       /\ s[3] - s[2] >= 2
       /\ \A k \in s[2]..(s[3] - 1) : Blank(text[k])
       /\ Ordinary(SubSeq(text, s[3], Len(text)))}

\* The number of newlines in the whitespace run of `text` that starts at
\* i.
NewlinesInRun(text, i) ==
    Cardinality({k \in i..(WhiteRunEnd(text, i) - 1) : text[k] = "N"})

\* C18: redaction ordering. The patterns are removed first, in list order,
\* then the whitespace is collapsed, then the text is trimmed: a pattern
\* between ordinary text and followed by two or more spaces/tabs leaves
\* exactly one space; whatever removal left, the result has no two
\* adjacent spaces/tabs, no whitespace run with three newlines, and no
\* whitespace at either end; a text in which the second pattern sits inside
\* the first keeps the first (it was looked for before the second went).
C18_RedactionOrdering ==
    r_done =>
      /\ \A s \in PatternThenBlanks(r_text) :
            r_out = SubSeq(r_text, 1, s[1] - 1) \o <<"S">>
                      \o SubSeq(r_text, s[3], Len(r_text))
      /\ \A k \in 1..(Len(r_out) - 1) : ~(Blank(r_out[k]) /\ Blank(r_out[k + 1]))
      /\ \A k \in 1..Len(r_out) : NewlinesInRun(r_out, k) <= 2
      /\ Len(r_out) > 0 => (~White(r_out[1]) /\ ~White(r_out[Len(r_out)]))
      /\ r_text = <<"a", "c", "d", "b">> => r_out = <<"a", "b">>

\* The pipeline ran on "x cd <space><tab> x" and returned "x x" with one
\* space.
C18_Witness ==
    /\ r_done
    /\ r_text = <<"x", "c", "d", "S", "T", "x">>
    /\ r_out = <<"x", "S", "x">>

\* C19: redaction idempotence. Running the pipeline on a text it returned
\* changes nothing.
C19_RedactionIdempotent == r_done => r_again = r_out

\* C20: every get_jwt_token call and every query that has started comes to
\* its end, with a result or an error, whatever the other caller of the
\* region does meanwhile; no caller waits for the cache lock forever.
C20_CallsComplete == \A p \in Procs : Active(p) ~> ~Active(p)

\* One caller waits for the write lock while the other, inside a query,
\* holds the read guard.
C20_Witness ==
    /\ pc[1] = "wlock"
    /\ pc[2] = "read"
    /\ op[2] \in QueryOps
    /\ readers[SharedRegion] = 1
    /\ ~CanWrite(SharedRegion)

\* C21, step part: once the dispatcher is built, no step of a query or of a
\* token call changes it (its keys, its clients and their configuration,
\* the sessions, the filter setup); a cache cell changes only in the store
\* of a call on that very region that holds a fetched token.
C21_FrameStep ==
    /\ disp.state # "none" => disp' = disp
    /\ \A c \in Cells :
          jwt_cache'[c] # jwt_cache[c] =>
            \E p \in Procs :
              /\ reg[p] = c
              /\ pc[p] \in {"write_token", "write_expiry"}
              /\ fetched[p]
              /\ jwt_info[p].some

\* C21: region independence and query frame. A query or a token fetch on
\* region R changes R's token cache at most: the caches of the other
\* regions and the dispatcher's configuration, sessions and filters stay
\* as they were, also when the query is repeated.
C21_RegionFrame == [][C21_FrameStep]_vars

\* A query on "us" has ended while the cache of "i18n" holds the token of
\* an earlier query, another one than the token of "us".
C21_Witness ==
    /\ disp.state = "ok"
    /\ pc[QueryProc] = "done"
    /\ reg[QueryProc] = "us"
    /\ ret[QueryProc] = OkQuery
    /\ jwt_cache["us"].some
    /\ jwt_cache["i18n"].some
    /\ jwt_cache["us"].token # jwt_cache["i18n"].token

\* C22: credential lookup. get_cas_session(region) gives the value of the
\* region's own variable when it is set and not empty, otherwise the value
\* of CAS_SESSION when that is set and not empty, otherwise
\* MissingCredentials naming the region's variable; an empty value counts
\* as an absent one.
C22_CredentialLookup ==
    e_region # "none" =>
      LET own == e_env[CasSessionEnvVar(e_region)]
          gen == e_env["CAS_SESSION"]
          ownSet == own.some /\ own.v # <<>>
          genSet == gen.some /\ gen.v # <<>>
      IN /\ ownSet => (e_ret.kind = "ok" /\ e_ret.detail = own.v)
         /\ (~ownSet /\ genSet) => (e_ret.kind = "ok" /\ e_ret.detail = gen.v)
         /\ (~ownSet /\ ~genSet) =>
               e_ret = Err("MissingCredentials", CasSessionEnvVar(e_region))
         /\ e_ret = GetCasSession(
                      [v \in EnvVarNames |->
                         IF e_env[v] = SomeStr(<<>>) THEN NoneStr ELSE e_env[v]],
                      e_region)
         /\ e_ret.kind = "ok" => e_ret.detail # <<>>

\* Both variables hold a session, different ones, and the lookup for "us"
\* gave the one of CAS_SESSION_US.
C22_Witness ==
    /\ e_region = "us"
    /\ e_env["CAS_SESSION_US"] = SomeStr(<<"p">>)
    /\ e_env["CAS_SESSION"] = SomeStr(<<"q">>)
    /\ e_ret = OkSession(<<"p">>)

\* `text` is the key of region r up to the case of its letters.
SpellsRegion(text, r) ==
    /\ Len(text) = Len(AsStr(r))
    /\ \A k \in 1..Len(text) :
          \/ text[k] = AsStr(r)[k]
          \/ <<text[k], AsStr(r)[k]>> \in {<<"N", "n">>, <<"I", "i">>}

\* C23: region keys round-trip. from_str gives r on as_str(r) and on every
\* spelling of it in other case, and None on every other string;
\* get_region_config gives a config, the one of that region, exactly for
\* the strings from_str accepts.
C23_RegionKeys ==
    s_done =>
      /\ \A r \in Regions :
            /\ s_text = AsStr(r) => s_region = r
            /\ SpellsRegion(s_text, r) <=> s_region = r
      /\ s_region = "none" <=> ~\E r \in Regions : SpellsRegion(s_text, r)
      /\ s_cfg.some <=> s_region # "none"
      /\ s_cfg.some => s_cfg.region = s_region

\* "I18N" was parsed to I18n, and has a config.
C23_Witness ==
    /\ s_done
    /\ s_text = <<"I", "1", "8", "N">>
    /\ s_region = "i18n"
    /\ s_cfg.some

\* The positions of event e in what the update has done.
EventsAt(e) == {k \in 1..Len(u_events) : u_events[k] = e}

\* C24: update flow ordering. The current binary is replaced only after the
\* downloaded file passed the SHA256 verification and after the backup was
\* made.
C24_UpdateOrdering ==
    \A k \in EventsAt("replace") :
      /\ \E j \in EventsAt("verified") : j < k
      /\ \E j \in EventsAt("backup") : j < k
      /\ EventsAt("verify_failed") = {}

\* The version a version string stands for.
VersionOf(text) == CHOOSE v \in Versions : VersionString(v) = text

\* a is equal to or newer than b, the components compared as numbers.
NewerOrEqual(a, b) ==
    \/ a[1] > b[1]
    \/ a[1] = b[1] /\ a[2] > b[2]
    \/ a[1] = b[1] /\ a[2] = b[2] /\ a[3] >= b[3]

\* C30: update version gate. Without --force nothing is downloaded or
\* replaced when the current version is equal to or newer than the latest
\* release, the components compared as numbers; with --check nothing is
\* downloaded or replaced at all.
C30_VersionGate ==
    u_pc # "idle" =>
      /\ (~u_in.force
            /\ NewerOrEqual(VersionOf(u_in.current),
                            VersionOf(TrimStartV(u_in.tag)))) =>
            u_events = <<>>
      /\ u_in.check => u_events = <<>>

\* The auth request of caller p has failed.
FetchFailed(p) == fetched[p] /\ a_outcome[p] \notin {"none", "ok"}

\* C25, state part: a call whose fetch failed is over, never on its way to
\* the cache; it holds no token to store.
C25_FailedCallEnds ==
    \A p \in Procs :
      FetchFailed(p) =>
        /\ pc[p] \in {"done", "token_ret"}
        /\ ret[p].kind = "err"
        /\ jwt_info[p] = NoJwt
        /\ writer[reg[p]] # p

\* C25, step part: the step in which a fetch fails, forced or not, leaves
\* every cache cell as it is; a cell is changed only by a call whose fetch
\* succeeded, and a cell that holds a token is never emptied.
C25_FailureStep ==
    /\ \A p \in Procs :
          (pc[p] = "await_auth" /\ FetchFailed(p)') => jwt_cache' = jwt_cache
    /\ \A c \in Cells :
          /\ jwt_cache[c].some => jwt_cache'[c].some
          /\ jwt_cache'[c] # jwt_cache[c] =>
                \E p \in Procs :
                  reg[p] = c /\ fetched[p] /\ a_outcome[p] = "ok"

\* C25: a failed auth fetch leaves the token cache unchanged. The failing
\* get_jwt_token, forced or not, does not store into the cache or empty
\* it, so a token cached before is still there for a later call.
C25_FailureKeepsCache == []C25_FailedCallEnds /\ [][C25_FailureStep]_vars

\* After a fetch that succeeded and a forced one that failed, a non-forced
\* call has returned the token of the first from the cache.
C25_Witness ==
    /\ auth_calls = 2
    /\ Len(issued) = 1
    /\ pc[1] = "done"
    /\ op[1] = "get_jwt_token"
    /\ ~force[1]
    /\ ~fetched[1]
    /\ ret[1] = OkToken(issued[1].token)
    /\ jwt_cache[SharedRegion] = issued[1]
    /\ pc[2] = "done"
    /\ force[2]
    /\ FetchFailed(2)

\* C26, step part: no step lowers the expires_at a region's cache holds,
\* and the token of a completed write was not fetched before the token of
\* the write completed before it (tokens are numbered in the order in which
\* their fetches completed).
C26_ExpiryStep ==
    \A r \in Regions :
      /\ jwt_cache'[r].expires_at >= jwt_cache[r].expires_at
      /\ last_written'[r].token >= last_written[r].token

\* C26: monotone expiry. Across the writes to one region's cache, under any
\* interleaving of concurrent refreshes, the cached expires_at never
\* decreases and no write replaces a token by one fetched earlier.
C26_MonotoneExpiry == [][C26_ExpiryStep]_vars

\* The callers holding a read guard of cache cell c: the guard lives from
\* the read() to the end of the lookup block.
ReadGuards(c) == {q \in Procs : pc[q] = "read" /\ CacheCell(q) = c}

\* A call whose auth fetch is about to be sent or is in flight.
FetchPending(p) == pc[p] \in {"fetch", "await_auth"}

\* C27, state part: a call whose fetch is pending holds neither guard of
\* its cache, so the read guards out are those of the calls inside the
\* lookup block, and a call asking for the read guard meanwhile is not
\* kept waiting by the pending one.
C27_NoGuardWhilePending ==
    \A p \in Procs :
      FetchPending(p) =>
        /\ writer[CacheCell(p)] # p
        /\ readers[CacheCell(p)] = Cardinality(ReadGuards(CacheCell(p)))
        /\ \A q \in Procs \ {p} :
              (pc[q] = "rlock" /\ CacheCell(q) = CacheCell(p))
                 => CanRead(CacheCell(q))

\* C27, step part: while another call's fetch is pending, the lookup of a
\* non-forced get_jwt_token that finds a usable token returns that token at
\* once, sending no request, and the pending call stays where it was.
C27_HitStep ==
    \A p \in Procs : \A q \in Procs \ {p} :
      ( /\ FetchPending(q)
        /\ pc[p] = "read" /\ op[p] = "get_jwt_token"
        /\ CacheHit(jwt_cache[CacheCell(p)], now)
        /\ pc'[p] # pc[p] )
      => /\ pc'[p] = "done"
         /\ ret'[p] = OkToken(jwt_cache[CacheCell(p)].token)
         /\ ~fetched'[p]
         /\ auth_calls' = auth_calls
         /\ pc'[q] = pc[q]

\* C27: no call holds the read or the write lock of the token cache while
\* its auth fetch is in flight (the read lock is released before the fetch,
\* the write lock taken after it), so a concurrent non-forced get_jwt_token
\* that finds a usable cached token returns it without waiting for the
\* pending fetch.
C27_NoLockDuringFetch == []C27_NoGuardWhilePending /\ [][C27_HitStep]_vars

\* One call's fetch is in flight while a non-forced get_jwt_token is inside
\* its lookup block, the cache holding a usable token.
C27_Witness ==
    \E p \in Procs : \E q \in Procs \ {p} :
      /\ pc[q] = "await_auth" /\ op[q] = "get_jwt_token"
      /\ pc[p] = "read" /\ op[p] = "get_jwt_token" /\ ~force[p]
      /\ CacheCell(p) = CacheCell(q)
      /\ CacheHit(jwt_cache[CacheCell(p)], now)

\* The positions of a query inside its get_jwt_token call and at the return
\* of that call.
TokenPcs == {"rlock", "read", "fetch", "await_auth", "wlock", "write_token",
             "write_expiry", "token_ret"}

\* C28, state part: a query that has not got its token yet has sent no POST;
\* from the sending of the POST to its answer the query holds the token
\* get_jwt_token returned to it, a token the auth endpoint issued; a query
\* ended by the failure of get_jwt_token has sent no POST.
C28_PostNeedsToken ==
    \A p \in Procs :
      op[p] \in QueryOps =>
        /\ pc[p] \in TokenPcs => q_posts[p] = 0 /\ q_token[p] = 0
        /\ pc[p] \in {"post", "await_log"} =>
              /\ ret[p] = OkToken(q_token[p])
              /\ q_token[p] \in 1..Len(issued)
        /\ q_posts[p] \in {0, 1}
        /\ q_posts[p] = 1 => q_token[p] \in 1..Len(issued)
        /\ (pc[p] = "done" /\ ret[p].err = "AuthenticationFailed") =>
              q_posts[p] = 0 /\ q_token[p] = 0

\* C28, step part: the POST is sent by a query to which get_jwt_token has
\* returned a token, with that token, which is the one its own fetch got
\* or the cached one; a failed get_jwt_token ends the query at once.
C28_PostStep ==
    \A p \in Procs :
      /\ q_posts'[p] > q_posts[p] =>
            /\ pc[p] = "post" /\ op[p] \in QueryOps
            /\ ret[p].kind = "ok" /\ q_token[p] = ret[p].token
            /\ q_token'[p] = q_token[p]
            /\ IF fetched[p]
               THEN q_token[p] = Len(issued) /\ a_outcome[p] = "ok"
               ELSE q_token[p] = jwt_cache[CacheCell(p)].token
      /\ (pc[p] = "token_ret" /\ ret[p].kind # "ok" /\ pc'[p] # pc[p]) =>
            pc'[p] = "done" /\ q_posts'[p] = 0

\* C28: query step ordering. Within one query on a configured region the
\* token is obtained, from the cache or by an auth fetch, before the log
\* POST is sent; the POST carries exactly the token get_jwt_token returned
\* to this query; when obtaining the token fails no POST is sent.
C28_QueryStepOrdering == []C28_PostNeedsToken /\ [][C28_PostStep]_vars

\* A query has sent its POST with a token it took from the cache.
C28_Witness ==
    /\ pc[QueryProc] = "await_log" /\ op[QueryProc] \in QueryOps
    /\ q_posts[QueryProc] = 1 /\ ~fetched[QueryProc]
    /\ q_token[QueryProc] = jwt_cache[CacheCell(QueryProc)].token
    /\ q_token[QueryProc] # 0

\* A token the cache of region r was last given is still usable at time t.
LastWrittenUsable(r, t) == last_written[r].some /\ IsValid(last_written[r], t)

\* C29, state part: the query client of a region and the dispatcher's auth
\* manager of that region look at one cache entry.
C29_SameEntry ==
    \A r \in Regions :
      jwt_cache[CacheOf("client", r)] = jwt_cache[CacheOf("manager", r)]

\* C29, step part: the lookup of a non-forced get_jwt_token, made through
\* the client or through the manager, returns the usable token last stored
\* for the region (through whichever of the two), and no request is sent.
C29_ReuseStep ==
    \A p \in Procs :
      ( /\ pc[p] = "read" /\ pc'[p] # "read"
        /\ op[p] \in QueryOps \cup {"get_jwt_token"}
        /\ LastWrittenUsable(reg[p], now) )
      => /\ ret'[p] = OkToken(last_written[reg[p]].token)
         /\ pc'[p] = RetPc(op[p])
         /\ ~fetched'[p]
         /\ auth_calls' = auth_calls

\* C29: within a dispatcher the query client of region R and the auth
\* manager of region R share one token cache: both observe the same cached
\* entry after any sequence of operations, so a token fetched through
\* either is reused by a later non-forced get_jwt_token through the other
\* without a new fetch.
C29_SharedCache == []C29_SameEntry /\ [][C29_ReuseStep]_vars

\* After a query through the client, a non-forced get_jwt_token through the
\* manager has returned the query's token, one auth request having been
\* sent in all.
C29_Witness ==
    /\ pc[QueryProc] = "done" /\ op[QueryProc] = "get_jwt_token"
    /\ ~force[QueryProc] /\ ~fetched[QueryProc]
    /\ q_token[QueryProc] # 0
    /\ ret[QueryProc] = OkToken(q_token[QueryProc])
    /\ auth_calls = 1

====
